---- MODULE Spec2Model ----
(***************************************************************************)
(* Cross-channel conversation and worker-orchestration engine of           *)
(* better-call-claude: the conversation registry (ConversationManager),    *)
(* the worker lifecycle manager (TaskExecutor), the always-on chat queue   *)
(* (WhatsAppChatManager), the worker call-back surface (createPhoneAPI)    *)
(* and the inbound dispatch policy (gather webhook, handleInboundWhatsApp).*)
(*                                                                         *)
(* One control thread runs every handler to completion, so each handler is *)
(* one atomic action.  Promises are records of the sequence `waits`; a     *)
(* timer is the `timer` flag of its promise and fires as a separate        *)
(* action.  Worker processes are records of the sequence `execs`; their    *)
(* exit is a separate action.  crypto.randomUUID() is a counter that never *)
(* repeats.  Message contents are the numbers 1, 2, ... in order of        *)
(* arrival, so that every message is distinguishable.                      *)
(***************************************************************************)
EXTENDS Integers, Sequences, FiniteSets, TLC

\* ---------------------------------------------------------------- bounds
MaxConv == 1
MaxMsgs == 3
MaxWaits == 2
MaxTime == 1
MaxResets == 1
NumSenders == 1
NumVoiceCtx == 1
NumCalls == 1
MaxAgeArg == 1
MaxCallbacks == 2
MaxThreads == 3
NumDupCalls == 2
NumFrom == 2
NumSummaries == 1
maxHistory == 2

Null == 0

ConvIds == 1..MaxConv
Senders == 1..NumSenders
VoiceCtx == 1..NumVoiceCtx

\* ---------------------------------------------------------------- enums
ChannelType == {"voice", "sms", "whatsapp"}
ConversationState == {"ringing", "active", "pending_response", "ended"}
ConversationDirection == {"inbound", "outbound"}
Role == {"user", "assistant"}

VARIABLES
    \* ConversationManager
    conversations,      \* Map id -> Conversation, as a sequence in insertion order
    inboundWaiters,     \* array of promise ids
    responseWaiters,    \* Map conversation id -> promise id
    \* promises handed out by the wait primitives and the call-back surface
    waits,
    \* TaskExecutor
    executions,         \* Map key -> index of the TaskExecution object in execs
    execs,              \* every TaskExecution object ever made, with its process
    callbackLinks,      \* Map callback id -> original id
    \* WhatsAppChatManager
    chatConfigured,     \* whatsappChatManager !== null
    history, sessionId, isProcessing, pendingMessages, voiceContext,
    \* createPhoneAPI
    pendingQuestions,   \* Map conversation id -> promise id
    whatsappWaits,      \* pool of promise ids blocked in /api/whatsapp-wait
    \* environment
    now,                \* Date.now(), a positive number
    nextId,             \* next conversation id crypto.randomUUID() returns
    nextMsg,            \* content of the next message to arrive
    last                \* what the last handler did (observation only)

regVars == <<conversations, inboundWaiters, responseWaiters>>
exVars == <<executions, execs, callbackLinks>>
chatVars == <<history, sessionId, isProcessing, pendingMessages, voiceContext>>
apiVars == <<pendingQuestions, whatsappWaits>>
vars == <<conversations, inboundWaiters, responseWaiters, waits,
          executions, execs, callbackLinks,
          chatConfigured, history, sessionId, isProcessing, pendingMessages,
          voiceContext, pendingQuestions, whatsappWaits,
          now, nextId, nextMsg, last>>

\* ---------------------------------------------------------------- helpers
\* Map.delete / Map.set on a function whose domain is the key set
MapDelete(m, k) == [x \in (DOMAIN m) \ {k} |-> m[x]]
MapSet(m, k, v) == [x \in (DOMAIN m) \cup {k} |-> IF x = k THEN v ELSE m[x]]
EmptyMap == [x \in {} |-> 0]

\* Array.splice(i, 1)
RemoveAt(s, i) == SubSeq(s, 1, i - 1) \o SubSeq(s, i + 1, Len(s))

\* Array.findIndex over a sequence: the first index satisfying P, 0 when none
FirstIndex(s, P(_)) ==
    IF \E i \in 1..Len(s) : P(s[i])
    THEN CHOOSE i \in 1..Len(s) : P(s[i]) /\ \A j \in 1..(i - 1) : ~P(s[j])
    ELSE 0

\* ================================================================
\* ConversationManager
\* ================================================================

\* this.conversations.get(id): index in the sequence, 0 when undefined
ConvIndex(convs, id) == FirstIndex(convs, LAMBDA c : c.id = id)

getConversation(id) == ConvIndex(conversations, id)

\* conversation.messages[conversation.messages.length - 1]?.role
LastRole(c) == IF Len(c.messages) = 0 THEN "none" ELSE c.messages[Len(c.messages)].role
LastContent(c) == IF Len(c.messages) = 0 THEN Null ELSE c.messages[Len(c.messages)].content

\* The registry as one value, so that handlers can chain registry calls.
Reg == [conversations |-> conversations, inboundWaiters |-> inboundWaiters,
        responseWaiters |-> responseWaiters, waits |-> waits]

SetReg(r) ==
    /\ conversations' = r.conversations
    /\ inboundWaiters' = r.inboundWaiters
    /\ responseWaiters' = r.responseWaiters
    /\ waits' = r.waits

\* resolve(value) of a promise: the first resolution wins, later ones are ignored
Resolve(ws, w, value) ==
    [ws EXCEPT ![w].resolved = @ + 1,
               ![w].result = IF ws[w].resolved = 0 THEN value ELSE @]

ClearTimeout(ws, w) == [ws EXCEPT ![w].timer = FALSE]

createConversation(r, id, channel, direction, providerConversationId, from) ==
    LET conversation == [id |-> id,
                         providerConversationId |-> providerConversationId,
                         channel |-> channel,
                         direction |-> direction,
                         state |-> IF channel = "voice" THEN "ringing" ELSE "active",
                         messages |-> <<>>,
                         startedAt |-> now,
                         endedAt |-> -1,
                         from |-> from]
        i == ConvIndex(r.conversations, id)
    IN [r EXCEPT !.conversations =
            IF i = 0 THEN Append(@, conversation) ELSE [@ EXCEPT ![i] = conversation]]

updateState_stampAlways(r, id, state) ==
    LET i == ConvIndex(r.conversations, id)
    IN IF i = 0 THEN r
       ELSE [r EXCEPT !.conversations[i].state = state,
                      !.conversations[i].endedAt = now]

updateState(r, id, state) ==
    LET i == ConvIndex(r.conversations, id)
    IN IF i = 0 THEN r
       ELSE [r EXCEPT !.conversations[i].state = state,
                      !.conversations[i].endedAt = IF state = "ended" THEN now ELSE @]

notifyInboundWaiters_ignoreFilter(r, channel, id) ==
    IF Len(r.inboundWaiters) > 0
    THEN LET w == r.inboundWaiters[1]
         IN [r EXCEPT !.inboundWaiters = RemoveAt(@, 1),
                      !.waits = Resolve(ClearTimeout(@, w), w, id)]
    ELSE r

\* notifyInboundWaiters(conversation)
notifyInboundWaiters(r, channel, id) ==
    LET waiterIndex == FirstIndex(r.inboundWaiters,
                           LAMBDA w : r.waits[w].channel = "any" \/ r.waits[w].channel = channel)
    IN IF waiterIndex # 0
       THEN LET w == r.inboundWaiters[waiterIndex]
            IN [r EXCEPT !.inboundWaiters = RemoveAt(@, waiterIndex),
                         !.waits = Resolve(ClearTimeout(@, w), w, id)]
       ELSE r

IsUserMessage_anyRole(role) == role \in Role

\* if (role === "user")
IsUserMessage(role) == role = "user"

addMessage(r, id, role, content) ==
    LET i == ConvIndex(r.conversations, id)
        r1 == [r EXCEPT !.conversations[i].messages = Append(@, [role |-> role, content |-> content])]
        r2 == IF id \in DOMAIN r1.responseWaiters
              THEN LET w == r1.responseWaiters[id]
                   IN [r1 EXCEPT !.responseWaiters = MapDelete(@, id),
                                 !.waits = Resolve(ClearTimeout(@, w), w, content)]
              ELSE r1
        r3 == IF r2.conversations[i].direction = "inbound"
              THEN notifyInboundWaiters(
                       [r2 EXCEPT !.conversations[i].state = "pending_response"],
                       r2.conversations[i].channel, id)
              ELSE r2
    IN IF i = 0 THEN r
       ELSE IF IsUserMessage(role) THEN r3 ELSE r1



\* getPendingInbound(channel): the id of the first pending inbound conversation, 0 for null
getPendingInbound(r, channel) ==
    LET i == FirstIndex(r.conversations,
                 LAMBDA c : /\ c.direction = "inbound"
                            /\ c.state = "pending_response"
                            /\ Len(c.messages) > 0
                            /\ (channel = "any" \/ c.channel = channel))
    IN IF i = 0 THEN Null ELSE r.conversations[i].id

\* A promise.  kind, conv, channel: which primitive made it and for what.
\* suspended: a waiter was registered; timer: its setTimeout is armed.
\* resolved: number of resolve() calls that reached it; result: its value;
\* returned: the call returned to its caller without awaiting the promise.
\* regKnown, regLen, regEnded: the conversation as it was when the promise was
\* made (in the registry, its message count, its state being ended).
NewWait(kind, id, channel, suspended, result, c) ==
    [kind |-> kind, conv |-> id, channel |-> channel,
     suspended |-> suspended, timer |-> suspended,
     resolved |-> IF suspended THEN 0 ELSE 1, result |-> result, returned |-> ~suspended,
     regKnown |-> c.known, regLen |-> c.len, regEnded |-> c.ended]

NoConv == [known |-> FALSE, len |-> 0, ended |-> FALSE]
Snapshot(c) == [known |-> TRUE, len |-> Len(c.messages), ended |-> c.state = "ended"]

AlreadyAnswered_anyEarlier(conversation) ==
    \E i \in 1..Len(conversation.messages) : conversation.messages[i].role = "user"

\* lastMessage?.role === "user": a user response is already there
AlreadyAnswered(conversation) == LastRole(conversation) = "user"

waitForResponse(r, conversationId) ==
    LET i == ConvIndex(r.conversations, conversationId)
        conversation == r.conversations[i]
        w == Len(r.waits) + 1
    IN IF i = 0
       THEN [r EXCEPT !.waits = Append(@, NewWait("response", conversationId, "any", FALSE, Null, NoConv))]
       ELSE IF AlreadyAnswered(conversation)
       THEN [r EXCEPT !.waits = Append(@, NewWait("response", conversationId, "any", FALSE,
                                                   LastContent(conversation), Snapshot(conversation)))]
       ELSE [r EXCEPT !.waits = Append(@, NewWait("response", conversationId, "any", TRUE, Null,
                                                   Snapshot(conversation))),
                      !.responseWaiters = MapSet(@, conversationId, w)]

\* the setTimeout callback of waitForResponse
responseTimeout(r, w) ==
    [r EXCEPT !.responseWaiters = MapDelete(@, r.waits[w].conv),
              !.waits = Resolve(ClearTimeout(@, w), w, Null)]

waitForInbound(r, channel) ==
    LET pending == getPendingInbound(r, channel)
        w == Len(r.waits) + 1
    IN IF pending # Null
       THEN [r EXCEPT !.waits = Append(@, NewWait("inbound", Null, channel, FALSE, pending, NoConv))]
       ELSE [r EXCEPT !.waits = Append(@, NewWait("inbound", Null, channel, TRUE, Null, NoConv)),
                      !.inboundWaiters = Append(@, w)]

inboundTimeout_keepWaiter(r, w) ==
    [r EXCEPT !.waits = Resolve(ClearTimeout(@, w), w, Null)]

\* the setTimeout callback of waitForInbound
inboundTimeout(r, w) ==
    LET index == FirstIndex(r.inboundWaiters, LAMBDA x : x = w)
    IN [r EXCEPT !.inboundWaiters = IF index # 0 THEN RemoveAt(@, index) ELSE @,
                 !.waits = Resolve(ClearTimeout(@, w), w, Null)]

findOrCreateId_anySender(r, channel, from) ==
    LET i == FirstIndex(r.conversations,
                 LAMBDA c : c.channel = channel /\ c.state # "ended")
    IN IF channel \in {"sms", "whatsapp"} /\ i # 0 THEN r.conversations[i].id ELSE nextId

findOrCreateId_whatsappOnly(r, channel, from) ==
    LET i == FirstIndex(r.conversations,
                 LAMBDA c : c.channel = channel /\ c.state # "ended" /\ c.from = from)
    IN IF channel = "whatsapp" /\ i # 0 THEN r.conversations[i].id ELSE nextId

\* findOrCreateConversation: the id of the conversation it returns
findOrCreateId(r, channel, from) ==
    LET i == FirstIndex(r.conversations,
                 LAMBDA c : c.channel = channel /\ c.state # "ended" /\ c.from = from)
    IN IF channel \in {"sms", "whatsapp"} /\ i # 0 THEN r.conversations[i].id ELSE nextId

findOrCreateConversation(r, channel, providerMessageId, from) ==
    IF findOrCreateId(r, channel, from) # nextId THEN r
    ELSE createConversation(r, nextId, channel, "inbound", providerMessageId, from)

cleanupOld(r, maxAgeMs) ==
    LET keep(c) == ~(c.state = "ended" /\ c.endedAt # -1 /\ now - c.endedAt > maxAgeMs)
    IN [r EXCEPT !.conversations = SelectSeq(@, keep)]

\* ================================================================
\* TaskExecutor
\* ================================================================

\* The executor as one value, so that handlers can chain executor calls.
Ex == [executions |-> executions, execs |-> execs, callbackLinks |-> callbackLinks]

SetEx(e) ==
    /\ executions' = e.executions
    /\ execs' = e.execs
    /\ callbackLinks' = e.callbackLinks

\* process.cwd()
Cwd == 0

\* exit codes of a worker: 0, or anything else (a non-zero code, or null after a signal)
ExitCodes == {0, 1}

\* the code 'close' carries for a process that could not be launched
LaunchFailedCode == 1

\* this.executions.get(key): index into execs, 0 when undefined.  The Map is a
\* sequence of <<key, index>> in insertion order.
ExecIndex(e, key) ==
    LET i == FirstIndex(e.executions, LAMBDA kv : kv[1] = key)
    IN IF i = 0 THEN 0 ELSE e.executions[i][2]

getExecution(key) == ExecIndex(Ex, key)

\* this.executions.set(key, execution)
ExecSet(m, key, x) ==
    LET i == FirstIndex(m, LAMBDA kv : kv[1] = key)
    IN IF i = 0 THEN Append(m, <<key, x>>) ELSE [m EXCEPT ![i] = <<key, x>>]

\* this.executions.delete(key)
ExecDelete(m, key) == SelectSeq(m, LAMBDA kv : kv[1] # key)

\* the prompt handed to a worker, reduced to the parts that vary
TaskPrompt(task, context, channel) ==
    [kind |-> "task", latest |-> task, context |-> context, channel |-> channel,
     voice |-> Null, hist |-> <<>>, session |-> 0]

\* spawnClaude: one process, one TaskExecution with status running under the key.
\* alive: the process has not exited; signalled: SIGTERM was sent to it;
\* errored: its 'error' event was delivered; closed: its 'close' event was
\* delivered; onClose: the callback, if any.
spawnClaude(e, conversationId, prompt, workingDir, onClose) ==
    LET execution == [conversationId |-> conversationId,
                      task |-> Null,
                      prompt |-> prompt,
                      status |-> "running",
                      startedAt |-> now,
                      completionSummary |-> Null,
                      workingDir |-> workingDir,
                      alive |-> TRUE, signalled |-> FALSE, errored |-> FALSE,
                      closed |-> FALSE,
                      onClose |-> onClose]
    IN [e EXCEPT !.execs = Append(@, execution),
                 !.executions = ExecSet(@, conversationId, Len(e.execs) + 1)]

linkCallback_swapped(e, callbackConversationId, originalConversationId) ==
    [e EXCEPT !.callbackLinks = MapSet(@, originalConversationId, callbackConversationId)]

linkCallback(e, callbackConversationId, originalConversationId) ==
    [e EXCEPT !.callbackLinks = MapSet(@, callbackConversationId, originalConversationId)]

recordCompletion(e, conversationId, summary) ==
    LET x == ExecIndex(e, conversationId)
    IN IF x # 0 THEN [e EXCEPT !.execs[x].completionSummary = summary] ELSE e

getTaskContext_noLink(e, conversationId) ==
    LET x == ExecIndex(e, conversationId)
    IN IF x # 0 /\ e.execs[x].completionSummary # Null THEN x ELSE 0

\* getTaskContext(conversationId): the index of the execution whose context is
\* returned, 0 for undefined
getTaskContext(e, conversationId) ==
    LET originalId == IF conversationId \in DOMAIN e.callbackLinks
                      THEN e.callbackLinks[conversationId] ELSE conversationId
        x == ExecIndex(e, originalId)
    IN IF x # 0 /\ e.execs[x].completionSummary # Null THEN x ELSE 0

ContextOf(e, x) ==
    IF x = 0 THEN Null
    ELSE [originalTask |-> e.execs[x].task,
          completionSummary |-> e.execs[x].completionSummary,
          workingDir |-> e.execs[x].workingDir,
          conversationId |-> e.execs[x].conversationId,
          completedAt |-> IF e.execs[x].status # "running" THEN e.execs[x].startedAt ELSE -1]

getLatestTaskContext_firstTracked(e) ==
    IF Len(e.executions) > 0 THEN e.executions[1][2] ELSE 0

\* getLatestTaskContext(): the index of the execution it reports, 0 for undefined
getLatestTaskContext(e) ==
    LET better(i) == e.execs[e.executions[i][2]].startedAt > 0
                     /\ \A j \in 1..Len(e.executions) :
                          \/ e.execs[e.executions[j][2]].startedAt < e.execs[e.executions[i][2]].startedAt
                          \/ (e.execs[e.executions[j][2]].startedAt = e.execs[e.executions[i][2]].startedAt /\ j >= i)
    IN IF \E i \in 1..Len(e.executions) : better(i)
       THEN e.executions[CHOOSE i \in 1..Len(e.executions) : better(i)][2]
       ELSE 0

\* the context record getLatestTaskContext returns
LatestContextOf(e, x) ==
    IF x = 0 THEN Null
    ELSE [ContextOf(e, x) EXCEPT !.completionSummary =
             IF e.execs[x].completionSummary # Null THEN @ ELSE -1]

executeTask(e, conversationId, initialTask, workingDir, context, channel) ==
    LET e1 == spawnClaude(e, conversationId, TaskPrompt(initialTask, context, channel),
                          workingDir, "none")
    IN [e1 EXCEPT !.execs[Len(e1.execs)].task = initialTask]

IsActive_anyRecord(e, x) == x # 0

\* execution.status === "running"
IsActive(e, x) == x # 0 /\ e.execs[x].status = "running"

isRunning(e, conversationId) == IsActive(e, ExecIndex(e, conversationId))

killTask(e, conversationId) ==
    LET x == ExecIndex(e, conversationId)
    IN IF IsActive(e, x)
       THEN [e EXCEPT !.execs[x].signalled = TRUE, !.execs[x].status = "failed"]
       ELSE e

cleanup_atThreshold(e, maxAgeMs, maxRunningMs) ==
    LET age(x) == now - e.execs[x].startedAt
        old(x) == e.execs[x].status # "running" /\ age(x) >= maxAgeMs
        zombie(x) == ~old(x) /\ e.execs[x].status = "running" /\ age(x) >= maxRunningMs
        tracked == {e.executions[i][2] : i \in 1..Len(e.executions)}
    IN [e EXCEPT !.execs = SubSeq([x \in 1..Len(e.execs) |->
                               IF x \in tracked /\ zombie(x)
                               THEN [e.execs[x] EXCEPT !.signalled = TRUE, !.status = "failed"]
                               ELSE e.execs[x]], 1, Len(e.execs)),
                 !.executions = SelectSeq(@, LAMBDA kv : ~(old(kv[2]) \/ zombie(kv[2])))]

cleanup(e, maxAgeMs, maxRunningMs) ==
    LET age(x) == now - e.execs[x].startedAt
        old(x) == e.execs[x].status # "running" /\ age(x) > maxAgeMs
        zombie(x) == ~old(x) /\ e.execs[x].status = "running" /\ age(x) > maxRunningMs
        tracked == {e.executions[i][2] : i \in 1..Len(e.executions)}
    IN [e EXCEPT !.execs = SubSeq([x \in 1..Len(e.execs) |->
                               IF x \in tracked /\ zombie(x)
                               THEN [e.execs[x] EXCEPT !.signalled = TRUE, !.status = "failed"]
                               ELSE e.execs[x]], 1, Len(e.execs)),
                 !.executions = SelectSeq(@, LAMBDA kv : ~(old(kv[2]) \/ zombie(kv[2])))]

killAllRunning(e) ==
    LET tracked == {e.executions[i][2] : i \in 1..Len(e.executions)}
    IN [e EXCEPT !.execs = SubSeq([x \in 1..Len(e.execs) |->
                               IF x \in tracked /\ e.execs[x].status = "running"
                               THEN [e.execs[x] EXCEPT !.signalled = TRUE, !.status = "failed"]
                               ELSE e.execs[x]], 1, Len(e.execs))]

\* the 'close' handler of spawnClaude, without the onClose callback
closeHandler(e, x, code) ==
    [e EXCEPT !.execs[x].status = IF code = 0 THEN "completed" ELSE "failed",
              !.execs[x].alive = FALSE,
              !.execs[x].closed = TRUE]

\* the 'error' handler of spawnClaude: the process did not start
errorHandler(e, x) ==
    [e EXCEPT !.execs[x].status = "failed",
              !.execs[x].alive = FALSE,
              !.execs[x].errored = TRUE]

\* ================================================================
\* WhatsAppChatManager
\* ================================================================

\* The chat session as one value.
Chat == [history |-> history, sessionId |-> sessionId, isProcessing |-> isProcessing,
         pendingMessages |-> pendingMessages, voiceContext |-> voiceContext]

SetChat(c) ==
    /\ history' = c.history
    /\ sessionId' = c.sessionId
    /\ isProcessing' = c.isProcessing
    /\ pendingMessages' = c.pendingMessages
    /\ voiceContext' = c.voiceContext

trimHistory_dropNewest(h) ==
    IF Len(h) > maxHistory THEN SubSeq(h, 1, maxHistory) ELSE h

trimHistory(h) ==
    IF Len(h) > maxHistory THEN SubSeq(h, Len(h) - maxHistory + 1, Len(h)) ELSE h

\* buildPrompt(latestMessage), reduced to the parts that vary
buildPrompt(c, latestMessage) ==
    [kind |-> "chat", latest |-> latestMessage, context |-> Null, channel |-> "whatsapp",
     voice |-> c.voiceContext,
     hist |-> SubSeq(c.history, 1, Len(c.history) - 1),
     session |-> c.sessionId]

\* `wa-chat-${crypto.randomUUID().slice(0, 8)}`: a key no conversation id equals
SpawnId(e) == -(Len(e.execs) + 1)

\* processMessage(latestMessage): the pair <<chat session, executor>> it leaves
processMessage(c, e, latestMessage) ==
    LET c1 == [c EXCEPT !.isProcessing = TRUE]
    IN <<c1, spawnClaude(e, SpawnId(e), buildPrompt(c1, latestMessage), Cwd, "chat")>>

handleMessage(c, e, text) ==
    LET c1 == [c EXCEPT !.history = trimHistory(Append(@, [role |-> "user", content |-> text]))]
    IN IF c1.isProcessing
       THEN <<[c1 EXCEPT !.pendingMessages = Append(@, text)], e>>
       ELSE processMessage(c1, e, text)

recordAssistantMessage(c, text) ==
    [c EXCEPT !.history = trimHistory(Append(@, [role |-> "assistant", content |-> text]))]

resetForVoiceCall_keepQueue(c) ==
    [c EXCEPT !.history = <<>>,
              !.voiceContext = Null,
              !.isProcessing = FALSE,
              !.sessionId = @ + 1]

\* crypto.randomUUID() for the session: a value no earlier session had
resetForVoiceCall(c) ==
    [c EXCEPT !.history = <<>>,
              !.pendingMessages = <<>>,
              !.voiceContext = Null,
              !.isProcessing = FALSE,
              !.sessionId = @ + 1]

setVoiceContext_keepFirst(c, context) ==
    IF c.voiceContext = Null THEN [c EXCEPT !.voiceContext = context] ELSE c

setVoiceContext(c, context) == [c EXCEPT !.voiceContext = context]

chatOnClose_noDrain(c, e) == <<[c EXCEPT !.isProcessing = FALSE], e>>

chatOnClose_newestFirst(c, e) ==
    LET c1 == [c EXCEPT !.isProcessing = FALSE]
        n == Len(c1.pendingMessages)
    IN IF n > 0
       THEN processMessage([c1 EXCEPT !.pendingMessages = SubSeq(@, 1, n - 1)], e,
                           c1.pendingMessages[n])
       ELSE <<c1, e>>

chatOnClose_clearAfterDrain(c, e) ==
    LET r == IF Len(c.pendingMessages) > 0
             THEN processMessage([c EXCEPT !.pendingMessages = Tail(@)], e, Head(c.pendingMessages))
             ELSE <<c, e>>
    IN <<[r[1] EXCEPT !.isProcessing = FALSE], r[2]>>

\* the onClose callback processMessage passes to spawnClaude
chatOnClose(c, e) ==
    LET c1 == [c EXCEPT !.isProcessing = FALSE]
    IN IF Len(c1.pendingMessages) > 0
       THEN processMessage([c1 EXCEPT !.pendingMessages = Tail(@)], e, Head(c1.pendingMessages))
       ELSE <<c1, e>>

\* onClose?.(code)
onClose(c, e, x) == IF e.execs[x].onClose = "chat" THEN chatOnClose(c, e) ELSE <<c, e>>

\* ================================================================
\* createPhoneAPI: the worker call-back surface
\* ================================================================

\* The results an ask returns in place of an answer
AskFallback == -1
AskTimedOut == -2

\* The call-back surface as one value; waits is shared with the registry.
Api(ws) == [pendingQuestions |-> pendingQuestions, whatsappWaits |-> whatsappWaits, waits |-> ws]

SetApi(a) ==
    /\ pendingQuestions' = a.pendingQuestions
    /\ whatsappWaits' = a.whatsappWaits

\* pendingQuestions.get(conversationId) is defined
QuestionPending(a, conversationId) == conversationId \in DOMAIN a.pendingQuestions

resolveQuestion_keepEntry(a, conversationId, answer) ==
    IF QuestionPending(a, conversationId)
    THEN LET w == a.pendingQuestions[conversationId]
         IN [a EXCEPT !.waits = Resolve(ClearTimeout(@, w), w, answer)]
    ELSE a

\* resolveQuestion(conversationId, answer): the state it leaves; it returns
\* QuestionPending of the state before
resolveQuestion(a, conversationId, answer) ==
    IF QuestionPending(a, conversationId)
    THEN LET w == a.pendingQuestions[conversationId]
         IN [a EXCEPT !.waits = Resolve(ClearTimeout(@, w), w, answer),
                      !.pendingQuestions = MapDelete(@, conversationId)]
    ELSE a

\* hasPendingWhatsAppWait()
hasPendingWhatsAppWait(a) == Len(a.whatsappWaits) > 0

\* resolveWhatsAppWait(content) when it returns true: the oldest blocked
\* /api/whatsapp-wait call receives the content
resolveWhatsAppWait(a, content) ==
    LET w == Head(a.whatsappWaits)
    IN [a EXCEPT !.waits = Resolve(ClearTimeout(@, w), w, content),
                 !.whatsappWaits = Tail(@)]

\* ---------------------------------------------------------------- registry actions
Obs(op, id, out) == [op |-> op, id |-> id, out |-> out]

\* no message handler ran in the last step
NoObs == Obs("none", 0, "")

NoMessage == last' = NoObs

UnchangedEx == UNCHANGED <<executions, execs, callbackLinks>>
UnchangedChat == UNCHANGED <<chatConfigured, history, sessionId, isProcessing, pendingMessages, voiceContext>>
UnchangedApi == UNCHANGED <<pendingQuestions, whatsappWaits>>
UnchangedReg == UNCHANGED <<conversations, inboundWaiters, responseWaiters, waits>>

CreateConversation(channel, direction, from) ==
    /\ nextId <= MaxConv
    /\ SetReg(createConversation(Reg, nextId, channel, direction, nextId, from))
    /\ nextId' = nextId + 1
    /\ NoMessage
    /\ UNCHANGED <<now, nextMsg>>
    /\ UnchangedEx /\ UnchangedChat /\ UnchangedApi

AddMessage(id, role) ==
    /\ nextMsg <= MaxMsgs
    /\ SetReg(addMessage(Reg, id, role, nextMsg))
    /\ nextMsg' = nextMsg + 1
    /\ NoMessage
    /\ UNCHANGED <<now, nextId>>
    /\ UnchangedEx /\ UnchangedChat /\ UnchangedApi

UpdateState(id, state) ==
    /\ SetReg(updateState(Reg, id, state))
    /\ NoMessage
    /\ UNCHANGED <<now, nextId, nextMsg>>
    /\ UnchangedEx /\ UnchangedChat /\ UnchangedApi

WaitForResponse(id) ==
    /\ Len(waits) < MaxWaits
    /\ SetReg(waitForResponse(Reg, id))
    /\ NoMessage
    /\ UNCHANGED <<now, nextId, nextMsg>>
    /\ UnchangedEx /\ UnchangedChat /\ UnchangedApi

ResponseTimeout(w) ==
    /\ waits[w].kind = "response" /\ waits[w].timer
    /\ SetReg(responseTimeout(Reg, w))
    /\ NoMessage
    /\ UNCHANGED <<now, nextId, nextMsg>>
    /\ UnchangedEx /\ UnchangedChat /\ UnchangedApi

WaitForInbound(channel) ==
    /\ Len(waits) < MaxWaits
    /\ SetReg(waitForInbound(Reg, channel))
    /\ NoMessage
    /\ UNCHANGED <<now, nextId, nextMsg>>
    /\ UnchangedEx /\ UnchangedChat /\ UnchangedApi

InboundTimeout(w) ==
    /\ waits[w].kind = "inbound" /\ waits[w].timer
    /\ SetReg(inboundTimeout(Reg, w))
    /\ NoMessage
    /\ UNCHANGED <<now, nextId, nextMsg>>
    /\ UnchangedEx /\ UnchangedChat /\ UnchangedApi

CleanupOld(maxAgeMs) ==
    /\ SetReg(cleanupOld(Reg, maxAgeMs))
    /\ NoMessage
    /\ UNCHANGED <<now, nextId, nextMsg>>
    /\ UnchangedEx /\ UnchangedChat /\ UnchangedApi

Tick ==
    /\ now < 1 + MaxTime
    /\ now' = now + 1
    /\ NoMessage
    /\ UNCHANGED <<nextId, nextMsg>>
    /\ UnchangedReg /\ UnchangedEx /\ UnchangedChat /\ UnchangedApi

\* ---------------------------------------------------------------- worker events
UnchangedEnv == UNCHANGED <<now, nextId, nextMsg>>

\* a worker process exits: the 'close' handler, then the onClose callback
WorkerClose(x, code) ==
    /\ execs[x].alive
    /\ LET ce == onClose(Chat, closeHandler(Ex, x, code), x)
       IN SetChat(ce[1]) /\ SetEx(ce[2])
    /\ NoMessage
    /\ UNCHANGED chatConfigured
    /\ UnchangedEnv /\ UnchangedReg /\ UnchangedApi

\* a worker process could not be launched: the 'error' handler
LaunchError(x) ==
    /\ execs[x].alive /\ ~execs[x].signalled
    /\ SetEx(errorHandler(Ex, x))
    /\ NoMessage
    /\ UnchangedEnv /\ UnchangedReg /\ UnchangedChat /\ UnchangedApi

\* the runtime delivers 'close' for a process that could not be launched; it
\* may also never do so
CloseAfterError(x) ==
    /\ execs[x].errored /\ ~execs[x].closed
    /\ LET ce == onClose(Chat, closeHandler(Ex, x, LaunchFailedCode), x)
       IN SetChat(ce[1]) /\ SetEx(ce[2])
    /\ NoMessage
    /\ UNCHANGED chatConfigured
    /\ UnchangedEnv /\ UnchangedReg /\ UnchangedApi

\* ---------------------------------------------------------------- chat actions
HandleMessage ==
    /\ nextMsg <= MaxMsgs
    /\ LET ce == handleMessage(Chat, Ex, nextMsg)
       IN SetChat(ce[1]) /\ SetEx(ce[2])
    /\ nextMsg' = nextMsg + 1
    /\ NoMessage
    /\ UNCHANGED <<chatConfigured, now, nextId>>
    /\ UnchangedReg /\ UnchangedApi

RecordAssistantMessage ==
    /\ nextMsg <= MaxMsgs
    /\ SetChat(recordAssistantMessage(Chat, nextMsg))
    /\ nextMsg' = nextMsg + 1
    /\ NoMessage
    /\ UNCHANGED <<chatConfigured, now, nextId>>
    /\ UnchangedReg /\ UnchangedEx /\ UnchangedApi

ResetForVoiceCall ==
    /\ sessionId <= MaxResets
    /\ SetChat(resetForVoiceCall(Chat))
    /\ NoMessage
    /\ UNCHANGED chatConfigured
    /\ UnchangedEnv /\ UnchangedReg /\ UnchangedEx /\ UnchangedApi

SetVoiceContext(context) ==
    /\ SetChat(setVoiceContext(Chat, context))
    /\ last' = Obs("setVoiceContext", context, "")
    /\ UNCHANGED chatConfigured
    /\ UnchangedEnv /\ UnchangedReg /\ UnchangedEx /\ UnchangedApi

\* ---------------------------------------------------------------- call-back surface actions
\* POST /api/ask/:conversationId up to its await of speakToCall
Ask(conversationId) ==
    /\ Len(waits) < MaxWaits
    /\ LET i == getConversation(conversationId)
           w == Len(waits) + 1
       IN IF i = 0 \/ conversations[i].state = "ended"
          THEN /\ waits' = Append(waits, NewWait("ask", conversationId, "any", FALSE, AskFallback,
                                                 IF i = 0 THEN NoConv ELSE Snapshot(conversations[i])))
               /\ UNCHANGED pendingQuestions
          ELSE /\ waits' = Append(waits, NewWait("ask", conversationId, "any", TRUE, Null,
                                                 Snapshot(conversations[i])))
               /\ pendingQuestions' = MapSet(pendingQuestions, conversationId, w)
    /\ UNCHANGED <<conversations, inboundWaiters, responseWaiters, whatsappWaits, chatConfigured>>
    /\ NoMessage
    /\ UnchangedEnv /\ UnchangedEx /\ UnchangedChat

\* speakToCall of an ask throws: the catch branch of POST /api/ask
AskSpeakFailed(w) ==
    /\ waits[w].kind = "ask" /\ waits[w].timer /\ ~waits[w].returned
    /\ pendingQuestions' = MapDelete(pendingQuestions, waits[w].conv)
    /\ conversations' = updateState(Reg, waits[w].conv, "ended").conversations
    /\ waits' = [waits EXCEPT ![w].returned = TRUE]
    /\ UNCHANGED <<inboundWaiters, responseWaiters, whatsappWaits, chatConfigured>>
    /\ NoMessage
    /\ UnchangedEnv /\ UnchangedEx /\ UnchangedChat

\* the setTimeout callback of POST /api/ask
AskTimeout(w) ==
    /\ waits[w].kind = "ask" /\ waits[w].timer
    /\ pendingQuestions' = MapDelete(pendingQuestions, waits[w].conv)
    /\ waits' = Resolve(ClearTimeout(waits, w), w, AskTimedOut)
    /\ UNCHANGED <<conversations, inboundWaiters, responseWaiters, whatsappWaits, chatConfigured>>
    /\ NoMessage
    /\ UnchangedEnv /\ UnchangedEx /\ UnchangedChat

\* POST /api/whatsapp-wait: a worker blocks until the next WhatsApp message
WhatsAppWait ==
    /\ Len(waits) < MaxWaits
    /\ waits' = Append(waits, NewWait("whatsapp-wait", Null, "whatsapp", TRUE, Null, NoConv))
    /\ whatsappWaits' = Append(whatsappWaits, Len(waits) + 1)
    /\ UNCHANGED <<conversations, inboundWaiters, responseWaiters, pendingQuestions, chatConfigured>>
    /\ NoMessage
    /\ UnchangedEnv /\ UnchangedEx /\ UnchangedChat

\* the timeout of POST /api/whatsapp-wait
WhatsAppWaitTimeout(w) ==
    /\ waits[w].kind = "whatsapp-wait" /\ waits[w].timer
    /\ whatsappWaits' = SelectSeq(whatsappWaits, LAMBDA x : x # w)
    /\ waits' = Resolve(ClearTimeout(waits, w), w, Null)
    /\ UNCHANGED <<conversations, inboundWaiters, responseWaiters, pendingQuestions, chatConfigured>>
    /\ NoMessage
    /\ UnchangedEnv /\ UnchangedEx /\ UnchangedChat

\* completion summaries a worker reports (non-empty strings)
Summaries == 1..NumSummaries

\* POST /api/complete/:conversationId, called by the worker spawned for this
\* conversation; spoken: speakToCall succeeded.  When the
\* summary cannot be spoken the user is called back under a new conversation
\* id, which is linked to this one and registered nowhere else; reached:
\* initiateCall succeeded.  last.out is the `delivered` field of the response.
Complete(conversationId, summary, spoken) ==
    /\ getExecution(conversationId) # 0
    /\ LET e1 == recordCompletion(Ex, conversationId, summary)
           i == getConversation(conversationId)
           onCall == i # 0 /\ conversations[i].state # "ended"
       IN IF onCall /\ spoken
          THEN /\ SetEx(e1)
               /\ UNCHANGED <<conversations, nextId>>
               /\ last' = Obs("complete", conversationId, "spoken")
          ELSE /\ nextId <= MaxConv + MaxCallbacks
               /\ conversations' = IF onCall
                                   THEN updateState(Reg, conversationId, "ended").conversations
                                   ELSE conversations
               /\ SetEx(linkCallback(e1, nextId, conversationId))
               /\ nextId' = nextId + 1
               /\ \E reached \in BOOLEAN :
                      last' = Obs("complete", conversationId,
                                  IF reached THEN "callback" ELSE "failed")
    /\ UNCHANGED <<inboundWaiters, responseWaiters, waits, now, nextMsg>>
    /\ UnchangedChat /\ UnchangedApi

\* ---------------------------------------------------------------- webhooks
\* gateway ids of calls; message ids are the message numbers
CallIds == {100 + k : k \in 1..NumCalls}

getConversationByProviderId_byId(convs, providerConversationId) ==
    FirstIndex(convs, LAMBDA c : c.id = providerConversationId)

getConversationByProviderId(convs, providerConversationId) ==
    FirstIndex(convs, LAMBDA c : c.providerConversationId = providerConversationId)

\* the conversation id in the gather URL of the answer to a call.initiated event
InboundCallId(convs, providerCallId) ==
    LET existingConversation == getConversationByProviderId(convs, providerCallId)
    IN IF existingConversation # 0 THEN convs[existingConversation].id ELSE nextId

\* POST /webhook/:provider/inbound with a call.initiated event; limit: the
\* number of conversation ids the specification explores
InboundCallUpTo(providerCallId, from, limit) ==
    /\ SetChat(IF chatConfigured THEN resetForVoiceCall(Chat) ELSE Chat)
    /\ last' = Obs("inbound", InboundCallId(conversations, providerCallId), "answer")
    /\ chatConfigured => sessionId <= MaxResets
    /\ IF getConversationByProviderId(conversations, providerCallId) # 0
       THEN /\ UNCHANGED <<conversations, inboundWaiters, responseWaiters, waits, nextId>>
       ELSE /\ nextId <= limit
            /\ SetReg(createConversation(Reg, nextId, "voice", "inbound", providerCallId, from))
            /\ nextId' = nextId + 1
    /\ UNCHANGED <<chatConfigured, now, nextMsg>>
    /\ UnchangedEx /\ UnchangedApi

InboundCall(providerCallId, from) == InboundCallUpTo(providerCallId, from, MaxConv)

\* POST /webhook/:provider/gather/:conversationId with a transcript.  The
\* gateway posts to the gather URLs it was given, those of voice conversations
\* and of the call-backs placed by POST /api/complete.
Gather(conversationId) ==
    /\ nextMsg <= MaxMsgs
    /\ \/ /\ getConversation(conversationId) # 0
          /\ conversations[getConversation(conversationId)].channel = "voice"
       \/ conversationId \in DOMAIN callbackLinks
    /\ LET transcript == nextMsg
           r == addMessage(Reg, conversationId, "user", transcript)
           a == Api(r.waits)
           wasQuestionPending == QuestionPending(a, conversationId)
           a1 == resolveQuestion(a, conversationId, transcript)
           existingExecution == getExecution(conversationId)
           context == getTaskContext(Ex, conversationId)
       IN /\ SetReg([r EXCEPT !.waits = a1.waits])
          /\ SetApi(a1)
          /\ IF wasQuestionPending
             THEN UnchangedEx /\ last' = Obs("gather", conversationId, "question")
             ELSE IF existingExecution = 0
             THEN /\ SetEx(executeTask(Ex, conversationId, transcript,
                                       IF context # 0 THEN execs[context].workingDir ELSE Cwd,
                                       ContextOf(Ex, context), "voice"))
                  /\ last' = Obs("gather", conversationId, "spawn")
             ELSE UnchangedEx /\ last' = Obs("gather", conversationId, "hold")
    /\ nextMsg' = nextMsg + 1
    /\ UNCHANGED <<chatConfigured, now, nextId>>
    /\ UnchangedChat

\* POST /webhook/:provider/status/:conversationId, without the record of what
\* the handler did
StatusUpdate(conversationId, state) ==
    /\ conversationId < nextId
    /\ IF state \in {"completed", "failed"}
       THEN /\ conversations' = updateState(Reg, conversationId, "ended").conversations
            /\ SetChat(IF chatConfigured /\ getTaskContext(Ex, conversationId) # 0
                       THEN setVoiceContext(Chat, getTaskContext(Ex, conversationId))
                       ELSE Chat)
       ELSE /\ conversations' = IF state = "answered"
                                THEN updateState(Reg, conversationId, "active").conversations
                                ELSE conversations
            /\ SetChat(Chat)
    /\ UNCHANGED <<inboundWaiters, responseWaiters, waits, chatConfigured>>
    /\ UnchangedEnv /\ UnchangedEx /\ UnchangedApi

\* POST /webhook/:provider/status/:conversationId
StatusWebhook(conversationId, state) == StatusUpdate(conversationId, state) /\ NoMessage

\* handleInboundWhatsApp(message); resolved: what resolveWhatsAppWait returns
\* when a wait is pending
InboundWhatsApp(from, resolved) ==
    /\ nextMsg <= MaxMsgs
    /\ LET content == nextMsg
           id == findOrCreateId(Reg, "whatsapp", from)
           r == addMessage(findOrCreateConversation(Reg, "whatsapp", nextMsg, from),
                           id, "user", content)
           a == Api(r.waits)
           wasResolved == hasPendingWhatsAppWait(a) /\ resolved
           wasQuestionPending == QuestionPending(a, id)
           a1 == IF wasResolved THEN resolveWhatsAppWait(a, content)
                 ELSE resolveQuestion(a, id, content)
           existingExecution == getExecution(id)
           latestContext == getLatestTaskContext(Ex)
           ce == handleMessage(Chat, Ex, content)
       IN /\ id = nextId => nextId <= MaxConv
          /\ nextId' = IF id = nextId THEN nextId + 1 ELSE nextId
          /\ SetReg([r EXCEPT !.waits = a1.waits])
          /\ SetApi(a1)
          /\ IF wasResolved
             THEN UnchangedEx /\ SetChat(Chat) /\ last' = Obs("whatsapp", id, "wait")
             ELSE IF wasQuestionPending
             THEN UnchangedEx /\ SetChat(Chat) /\ last' = Obs("whatsapp", id, "question")
             ELSE IF ~IsActive(Ex, existingExecution)
             THEN IF chatConfigured
                  THEN SetChat(ce[1]) /\ SetEx(ce[2]) /\ last' = Obs("whatsapp", id, "queue")
                  ELSE /\ SetEx(executeTask(Ex, id, content,
                                            IF latestContext # 0 THEN execs[latestContext].workingDir ELSE Cwd,
                                            LatestContextOf(Ex, latestContext), "whatsapp"))
                       /\ SetChat(Chat)
                       /\ last' = Obs("whatsapp", id, "spawn")
             ELSE UnchangedEx /\ SetChat(Chat) /\ last' = Obs("whatsapp", id, "dropped")
    /\ nextMsg' = nextMsg + 1
    /\ UNCHANGED <<chatConfigured, now>>

\* ---------------------------------------------------------------- executor actions
KillTask(conversationId) ==
    /\ SetEx(killTask(Ex, conversationId))
    /\ NoMessage
    /\ UNCHANGED chatConfigured
    /\ UnchangedEnv /\ UnchangedReg /\ UnchangedChat /\ UnchangedApi

Cleanup(maxAgeMs, maxRunningMs) ==
    /\ SetEx(cleanup(Ex, maxAgeMs, maxRunningMs))
    /\ NoMessage
    /\ UNCHANGED chatConfigured
    /\ UnchangedEnv /\ UnchangedReg /\ UnchangedChat /\ UnchangedApi

KillAllRunning ==
    /\ SetEx(killAllRunning(Ex))
    /\ NoMessage
    /\ UNCHANGED chatConfigured
    /\ UnchangedEnv /\ UnchangedReg /\ UnchangedChat /\ UnchangedApi

\* ---------------------------------------------------------------- initial state
Init ==
    /\ conversations = <<>>
    /\ inboundWaiters = <<>>
    /\ responseWaiters = EmptyMap
    /\ waits = <<>>
    /\ executions = EmptyMap
    /\ execs = <<>>
    /\ callbackLinks = EmptyMap
    /\ chatConfigured \in BOOLEAN
    /\ history = <<>>
    /\ sessionId = 1
    /\ isProcessing = FALSE
    /\ pendingMessages = <<>>
    /\ voiceContext = Null
    /\ pendingQuestions = EmptyMap
    /\ whatsappWaits = <<>>
    /\ now = 1
    /\ nextId = 1
    /\ nextMsg = 1
    /\ last = NoObs

\* ---------------------------------------------------------------- the registry alone
\* ConversationManager with its response-waits: conversations are created, messages
\* appended, states updated, waitForResponse called and its timers fire, in any order.
InitReg == Init /\ chatConfigured = FALSE

\* sms and whatsapp conversations differ in no operation of this specification
RegChannels == {"voice", "whatsapp"}

NextReg ==
    \/ \E ch \in RegChannels, d \in ConversationDirection : CreateConversation(ch, d, 1)
    \/ \E id \in ConvIds, role \in Role : AddMessage(id, role)
    \/ \E id \in ConvIds, s \in ConversationState : UpdateState(id, s)
    \/ \E id \in ConvIds : WaitForResponse(id)
    \/ \E w \in 1..Len(waits) : ResponseTimeout(w)

SpecReg == InitReg /\ [][NextReg]_vars

\* ---------------------------------------------------------------- the chat queue alone
\* WhatsAppChatManager on top of TaskExecutor: messages arrive, replies are
\* recorded, voice calls reset the session, and the workers it spawned exit.
InitChat == Init /\ chatConfigured = TRUE

NextChat ==
    \/ HandleMessage
    \/ RecordAssistantMessage
    \/ ResetForVoiceCall
    \/ \E v \in VoiceCtx : SetVoiceContext(v)
    \/ \E x \in 1..Len(execs), code \in ExitCodes : WorkerClose(x, code)
    \/ \E x \in 1..Len(execs) : LaunchError(x)
    \/ \E x \in 1..Len(execs) : CloseAfterError(x)

SpecChat == InitChat /\ [][NextChat]_vars

\* ---------------------------------------------------------------- the whole engine
\* Webhooks, worker call-backs and worker exits in any order, with or without
\* a chat queue.
Keys == ConvIds \cup {-x : x \in 1..Len(execs)}

NextDispatch ==
    \/ \E c \in CallIds, f \in Senders : InboundCall(c, f)
    \/ \E id \in ConvIds : Gather(id)
    \/ \E id \in ConvIds, st \in {"completed", "answered"} : StatusWebhook(id, st)
    \/ \E f \in Senders, ok \in BOOLEAN : InboundWhatsApp(f, ok)
    \/ \E id \in ConvIds : Ask(id)
    \/ \E w \in 1..Len(waits) : AskSpeakFailed(w)
    \/ \E w \in 1..Len(waits) : AskTimeout(w)
    \/ WhatsAppWait
    \/ \E w \in 1..Len(waits) : WhatsAppWaitTimeout(w)
    \/ \E x \in 1..Len(execs), code \in ExitCodes : WorkerClose(x, code)
    \/ \E x \in 1..Len(execs) : LaunchError(x)
    \/ \E x \in 1..Len(execs) : CloseAfterError(x)

SpecDispatch == Init /\ [][NextDispatch]_vars

\* ---------------------------------------------------------------- messages and workers
\* Inbound messages, worker exits and the executor's maintenance operations in
\* any order, no worker call-back pending.
NextExec ==
    \/ \E c \in CallIds, f \in Senders : InboundCall(c, f)
    \/ \E id \in ConvIds : Gather(id)
    \/ \E id \in ConvIds : StatusWebhook(id, "completed")
    \/ \E f \in Senders : InboundWhatsApp(f, FALSE)
    \/ \E x \in 1..Len(execs), code \in ExitCodes : WorkerClose(x, code)
    \/ \E x \in 1..Len(execs) : LaunchError(x)
    \/ \E x \in 1..Len(execs) : CloseAfterError(x)
    \/ \E k \in Keys : KillTask(k)
    \/ \E a \in 0..MaxAgeArg, b \in 0..MaxAgeArg : Cleanup(a, b)
    \/ KillAllRunning
    \/ Tick

SpecExec == Init /\ [][NextExec]_vars

\* ================================================================
\* Properties of message dispatch
\* ================================================================

\* the workers spawned for a conversation id that have not exited
WorkersAlive(id) == {x \in 1..Len(execs) : execs[x].conversationId = id /\ execs[x].alive}

\* C2: for every conversation id, at most one worker spawned for that id is
\* alive at any time.
C2_OneWorkerPerConversation == \A id \in ConvIds : Cardinality(WorkersAlive(id)) <= 1

\* A step is the handling of one inbound user message; the conversation it
\* was filed under and its content:
MessageStep == last'.op \in {"gather", "whatsapp"}
WhatsAppStep == last'.op = "whatsapp"
MsgConv == last'.id
MsgContent == nextMsg

\* what the step found, read in the state before it
WaitWasPending == Len(whatsappWaits) > 0
QuestionWasPending == MsgConv \in DOMAIN pendingQuestions
WasRunning ==
    \E i \in 1..Len(executions) :
        executions[i][1] = MsgConv /\ execs[executions[i][2]].status = "running"

\* what the step did, read from the two states
WaitResolved ==
    /\ whatsappWaits' = Tail(whatsappWaits)
    /\ waits'[Head(whatsappWaits)].result = MsgContent
    /\ waits'[Head(whatsappWaits)].resolved = 1
QuestionResolved ==
    /\ MsgConv \notin DOMAIN pendingQuestions'
    /\ waits'[pendingQuestions[MsgConv]].resolved = waits[pendingQuestions[MsgConv]].resolved + 1
Queued == history' # history \/ pendingMessages' # pendingMessages
Spawned == Len(execs') > Len(execs)
Filed ==
    LET i == ConvIndex(conversations', MsgConv)
    IN /\ i # 0
       /\ Len(conversations'[i].messages) > 0
       /\ conversations'[i].messages[Len(conversations'[i].messages)]
              = [role |-> "user", content |-> MsgContent]
NoWaitTouched == whatsappWaits' = whatsappWaits
NoQuestionTouched == pendingQuestions' = pendingQuestions
NothingStarted == ~Queued /\ ~Spawned /\ execs' = execs

\* C3: every inbound WhatsApp message engages exactly one of: (1) the oldest
\* pending whatsapp-wait receives it; (2) the pending question of its
\* conversation receives it; (3) it is dropped because the conversation's
\* execution is running; (4) it goes to the chat queue if there is one, else a
\* one-shot worker is spawned under the conversation id.  A lower outcome is
\* engaged only when no higher one applies, and a pending whatsapp-wait that
\* could not be resolved leaves the decision to (2)..(4).
C3_StrictPriority ==
    [][WhatsAppStep =>
         /\ Filed
         /\ ~WaitWasPending => NoWaitTouched
         /\ ~NoWaitTouched => WaitResolved /\ NoQuestionTouched /\ NothingStarted
         /\ NoWaitTouched /\ QuestionWasPending => QuestionResolved /\ NothingStarted
         /\ NoWaitTouched /\ ~QuestionWasPending => NoQuestionTouched
         /\ NoWaitTouched /\ ~QuestionWasPending /\ WasRunning => NothingStarted
         /\ NoWaitTouched /\ ~QuestionWasPending /\ ~WasRunning =>
               IF chatConfigured
               THEN /\ Queued
                    /\ \A x \in Len(execs) + 1..Len(execs') : execs'[x].onClose = "chat"
               ELSE /\ ~Queued
                    /\ Len(execs') = Len(execs) + 1
                    /\ execs'[Len(execs')].conversationId = MsgConv
                    /\ execs'[Len(execs')].task = MsgContent
    ]_vars

\* a whatsapp-wait was pending, resolving it failed, and the message went to
\* the pending question of its conversation
C3_Witness ==
    /\ last = Obs("whatsapp", last.id, "question")
    /\ Len(whatsappWaits) > 0
    /\ \E w \in 1..Len(waits) : waits[w].kind = "ask" /\ waits[w].resolved = 1 /\ waits[w].result > 0

\* C4: while the execution tracked for a conversation has status running, a
\* further user message on it that resolves no wait and no question starts
\* nothing, leaves exactly one worker of that conversation alive, and is
\* appended to the conversation's messages.
C4_RunningMeansOneWorker ==
    [][MessageStep /\ NoWaitTouched /\ NoQuestionTouched /\ WasRunning =>
         /\ NothingStarted
         /\ Cardinality(WorkersAlive(MsgConv)) = 1
         /\ Filed
    ]_vars

\* C5: a user message that resolves no wait and no question, on a
\* conversation with no execution in status running, is handed to the chat
\* queue or to a new worker.
C5_NotRunningMeansHandled ==
    [][MessageStep /\ NoWaitTouched /\ NoQuestionTouched /\ ~WasRunning =>
         Queued \/ Spawned
    ]_vars

\* ================================================================
\* Properties of the chat queue
\* ================================================================
\* the workers spawned by the chat queue that have not exited
ChatWorkersAlive == {x \in 1..Len(execs) : execs[x].onClose = "chat" /\ execs[x].alive}

\* C1: at most one worker spawned by the chat queue is running at any time,
\* also after resetForVoiceCall was called while a worker was in flight.
C1_OneChatWorker == Cardinality(ChatWorkersAlive) <= 1

\* ================================================================
\* Properties of the registry
\* ================================================================
Conv(id) == conversations[ConvIndex(conversations, id)]
Known(id) == ConvIndex(conversations, id) # 0
ResponseWaits == {w \in 1..Len(waits) : waits[w].kind = "response"}

\* index of the first user message after the first n messages of c, 0 when none
FirstUserAfter(c, n) ==
    IF \E i \in (n + 1)..Len(c.messages) : c.messages[i].role = "user"
    THEN CHOOSE i \in (n + 1)..Len(c.messages) :
            /\ c.messages[i].role = "user"
            /\ \A j \in (n + 1)..(i - 1) : c.messages[j].role # "user"
    ELSE 0

\* C6: once a conversation's state is ended, no later operation changes its
\* state again: in every step, a conversation that is ended and still in the
\* registry afterwards is still ended.
C6_EndedIsFinal ==
    [][\A i \in 1..Len(conversations) :
          conversations[i].state = "ended" =>
              \A j \in 1..Len(conversations') :
                  conversations'[j].id = conversations[i].id => conversations'[j].state = "ended"]_vars

\* C7: a response-wait registered on a conversation whose state was already
\* ended never yields a real user message: its result is the null
\* (timeout / no-response) value.
C7_WaitAfterEndedGetsNothing ==
    \A w \in ResponseWaits : waits[w].regEnded => waits[w].result = Null

\* C8 (as stated): every non-null result of waitForResponse is the content of
\* the first user message appended to the conversation after the call; never
\* that of a message appended before it.
C8_OnlyLaterMessages ==
    \A w \in ResponseWaits :
        (waits[w].resolved > 0 /\ waits[w].result # Null) =>
            /\ Known(waits[w].conv)
            /\ LET c == Conv(waits[w].conv)
                   k == FirstUserAfter(c, waits[w].regLen)
               IN k # 0 /\ c.messages[k].content = waits[w].result

\* C8 (amended): a waitForResponse call that suspends yields, when its result
\* is not null, the content of the first user message appended after its
\* registration; a call that does not suspend yields the conversation's last
\* message at the time of the call, which has role user.
C8_SuspendedWaitGetsNextUserMessage ==
    \A w \in ResponseWaits :
        (waits[w].resolved > 0 /\ waits[w].result # Null) =>
            /\ Known(waits[w].conv)
            /\ LET c == Conv(waits[w].conv)
                   n == waits[w].regLen
                   k == FirstUserAfter(c, n)
               IN IF waits[w].suspended
                  THEN k # 0 /\ c.messages[k].content = waits[w].result
                  ELSE /\ n > 0
                       /\ c.messages[n].role = "user"
                       /\ c.messages[n].content = waits[w].result

\* a suspended wait was answered by the first of two user messages that
\* followed its registration
C8_Witness ==
    \E w \in ResponseWaits :
        /\ waits[w].suspended /\ waits[w].result # Null
        /\ LET c == Conv(waits[w].conv)
               k == FirstUserAfter(c, waits[w].regLen)
           IN k # 0 /\ FirstUserAfter(c, k) # 0

\* C9: waitForResponse returns at once, registering neither waiter nor timer,
\* with the content of the last message when that message has role user, and
\* with null for an unknown conversation id; otherwise it registers a waiter
\* with an armed timer under the conversation id.
C9_WaitForResponseAtOnce ==
    [][(Len(waits') = Len(waits) + 1 /\ waits'[Len(waits')].kind = "response") =>
          LET w == Len(waits')
              nw == waits'[w]
              i == ConvIndex(conversations, nw.conv)
          IN IF i = 0
             THEN /\ nw.resolved = 1 /\ nw.result = Null /\ ~nw.timer
                  /\ responseWaiters' = responseWaiters
             ELSE IF LastRole(conversations[i]) = "user"
             THEN /\ nw.resolved = 1 /\ nw.result = LastContent(conversations[i]) /\ ~nw.timer
                  /\ responseWaiters' = responseWaiters
             ELSE /\ nw.resolved = 0 /\ nw.timer
                  /\ nw.conv \in DOMAIN responseWaiters'
                  /\ responseWaiters'[nw.conv] = w]_vars

\* waitForResponse has returned at once with a user message, after an earlier
\* call on the same conversation had to suspend
C9_Witness ==
    \E w \in ResponseWaits, v \in ResponseWaits :
        /\ ~waits[w].suspended /\ waits[w].result # Null
        /\ waits[v].suspended /\ waits[v].conv = waits[w].conv

\* C10: every suspended waitForResponse is resolved with the first user message
\* appended before its deadline and with null only when there was none, also
\* when two waits are outstanding on one conversation id: in every step, a wait
\* that is resolved with null has seen no user message since its registration.
C10_NullOnlyWithoutMessage ==
    [][\A w \in 1..Len(waits) :
          (/\ waits[w].kind = "response" /\ waits[w].suspended
           /\ waits[w].resolved = 0 /\ waits'[w].resolved > 0
           /\ waits'[w].result = Null
           /\ Known(waits[w].conv))
          => FirstUserAfter(Conv(waits[w].conv), waits[w].regLen) = 0]_vars


\* ================================================================
\* Properties of the chat queue: queueing and draining
\* ================================================================

\* A step in which handleMessage received the text numbered nextMsg
HandleStep ==
    /\ nextMsg' = nextMsg + 1
    /\ Len(history') > 0
    /\ history'[Len(history')] = [role |-> "user", content |-> nextMsg]

\* A step in which the 'close' event of a queue worker was delivered
ChatWorkerExit ==
    \E x \in 1..Len(execs) :
        execs[x].onClose = "chat" /\ ~execs[x].closed /\ execs'[x].closed

\* the step spawned exactly one queue worker, for the given text
SpawnedFor(text) ==
    /\ Len(execs') = Len(execs) + 1
    /\ execs'[Len(execs')].onClose = "chat"
    /\ execs'[Len(execs')].status = "running"
    /\ execs'[Len(execs')].prompt.latest = text

\* C11: handleMessage with the processing flag set appends the text to the
\* pending queue and spawns nothing; with the flag clear it spawns one worker
\* and sets the flag.  A worker exit with a non-empty queue dequeues the oldest
\* message and spawns a worker for it in the same step (flag set, pending
\* count down by one); with an empty queue it leaves the flag clear.
C11_QueueAndDrain ==
    [][/\ HandleStep /\ isProcessing =>
            /\ pendingMessages' = Append(pendingMessages, nextMsg)
            /\ execs' = execs
            /\ isProcessing'
       /\ HandleStep /\ ~isProcessing =>
            /\ pendingMessages' = pendingMessages
            /\ SpawnedFor(nextMsg)
            /\ isProcessing'
       /\ ChatWorkerExit /\ pendingMessages # <<>> =>
            /\ pendingMessages' = Tail(pendingMessages)
            /\ SpawnedFor(Head(pendingMessages))
            /\ isProcessing'
       /\ ChatWorkerExit /\ pendingMessages = <<>> =>
            /\ Len(execs') = Len(execs)
            /\ ~isProcessing'
            /\ pendingMessages' = <<>>
    ]_vars

\* a worker was spawned from the queue while a later message was waiting
\* behind it: its prompt was built when the history already ended with the
\* later message
C11_Witness ==
    \E y \in 1..Len(execs) :
        /\ execs[y].onClose = "chat"
        /\ \E x \in 1..(y - 1) : execs[x].closed
        /\ \E i \in 1..Len(execs[y].prompt.hist) :
               execs[y].prompt.hist[i].content = execs[y].prompt.latest
        /\ Len(pendingMessages) = 1

\* the texts for which the queue spawned a worker, in spawn order
HandedOver(xs) ==
    LET chat == SelectSeq(xs, LAMBDA x : x.onClose = "chat")
    IN [i \in 1..Len(chat) |-> chat[i].prompt.latest]

\* the texts received and not dropped: those handed over, then those waiting
Line(xs, pending) == HandedOver(xs) \o pending

IsPrefix(s, t) == Len(s) <= Len(t) /\ SubSeq(t, 1, Len(s)) = s

\* C12: as long as resetForVoiceCall was never called, the texts for which a
\* worker was spawned are a prefix of the texts received, in the order
\* received: a received text joins the end of the line, and the line changes
\* in no other way while texts move from the queue to workers.
C12_FifoOrder ==
    [][sessionId' = 1 =>
         /\ IsPrefix(HandedOver(execs), HandedOver(execs'))
         /\ Line(execs', pendingMessages') =
               IF HandleStep THEN Append(Line(execs, pendingMessages), nextMsg)
               ELSE Line(execs, pendingMessages)
    ]_vars

\* three texts were received and handed to three workers one after another
C12_Witness ==
    /\ sessionId = 1
    /\ HandedOver(execs) = <<1, 2, 3>>
    /\ execs[1].closed /\ execs[2].closed /\ execs[3].alive
    /\ pendingMessages = <<>>

\* ---------------------------------------------------------------- the queue without resets
\* The chat queue with no voice call arriving, its workers reaped periodically.
NextChatLive ==
    \/ HandleMessage
    \/ RecordAssistantMessage
    \/ \E v \in VoiceCtx : SetVoiceContext(v)
    \/ \E x \in 1..Len(execs), code \in ExitCodes : WorkerClose(x, code)
    \/ \E x \in 1..Len(execs) : LaunchError(x)
    \/ \E x \in 1..Len(execs) : CloseAfterError(x)
    \/ \E a \in 0..MaxAgeArg, b \in 0..MaxAgeArg : Cleanup(a, b)
    \/ Tick

\* worker x terminates: its process exits, or it could not be launched
Terminate(x) ==
    /\ x \in 1..Len(execs)
    /\ \/ \E code \in ExitCodes : WorkerClose(x, code)
       \/ LaunchError(x)

\* every spawned worker eventually terminates
WorkersTerminate == \A x \in 1..MaxMsgs : WF_vars(Terminate(x))

SpecChatLive == InitChat /\ [][NextChatLive]_vars /\ WorkersTerminate

ResetStep == sessionId' # sessionId

\* C14: whatever the chat session holds, resetForVoiceCall leaves an empty
\* history, an empty pending queue, a clear processing flag, no voice context,
\* and a session id that differs from the one before and from the session of
\* every worker spawned so far.
C14_ResetClearsSession ==
    [][ResetStep =>
         /\ history' = <<>>
         /\ pendingMessages' = <<>>
         /\ ~isProcessing'
         /\ voiceContext' = Null
         /\ \A x \in 1..Len(execs') : execs'[x].prompt.session # sessionId'
    ]_vars

\* the session was reset while a worker of the first session was running
\* and nothing was received since
C14_Witness ==
    /\ sessionId = 2
    /\ history = <<>> /\ pendingMessages = <<>> /\ ~isProcessing /\ voiceContext = Null
    /\ \E x \in 1..Len(execs) : execs[x].alive /\ execs[x].prompt.session = 1
    /\ nextMsg = 3

\* ================================================================
\* Properties of the task executor
\* ================================================================

\* C15: the status of an execution that is no longer running never changes.
C15_TerminalStatusIsFinal ==
    [][\A x \in 1..Len(execs) :
          execs[x].status # "running" => execs'[x].status = execs[x].status]_vars

Tracked(m) == {m[i][2] : i \in 1..Len(m)}

\* C17: one cleanup(maxAgeMs, maxRunningMs) call signals, fails and removes a
\* running execution older than maxRunningMs, leaves a younger running one
\* untouched and tracked, removes a terminal execution older than maxAgeMs
\* and retains a younger terminal one.
C17_CleanupByAge ==
    [][\A a \in 0..MaxAgeArg, b \in 0..MaxAgeArg :
          Cleanup(a, b) =>
              \A x \in Tracked(executions) :
                 LET age == now - execs[x].startedAt
                 IN /\ execs[x].status = "running" /\ age > b =>
                          /\ execs'[x].signalled
                          /\ execs'[x].status = "failed"
                          /\ x \notin Tracked(executions')
                    /\ execs[x].status = "running" /\ age <= b =>
                          /\ execs'[x] = execs[x]
                          /\ x \in Tracked(executions')
                    /\ execs[x].status # "running" /\ age > a =>
                          x \notin Tracked(executions')
                    /\ execs[x].status # "running" /\ age <= a =>
                          /\ execs'[x] = execs[x]
                          /\ x \in Tracked(executions')
    ]_vars

\* a running worker was reaped: signalled, failed, gone from the table, and
\* its process has not exited yet
C17_Witness ==
    \E x \in 1..Len(execs) :
        /\ execs[x].signalled /\ execs[x].status = "failed" /\ execs[x].alive
        /\ x \notin Tracked(executions)
        /\ now > execs[x].startedAt

\* C19: getLatestTaskContext returns nothing when no execution is tracked,
\* and otherwise the task, working directory and conversation id of a tracked
\* execution that no tracked execution started after.
C19_LatestIsGreatestStart ==
    LET x == getLatestTaskContext(Ex)
    IN /\ Tracked(executions) = {} => x = 0 /\ LatestContextOf(Ex, x) = Null
       /\ Tracked(executions) # {} =>
            /\ x \in Tracked(executions)
            /\ \A y \in Tracked(executions) : execs[y].startedAt <= execs[x].startedAt
            /\ LatestContextOf(Ex, x).originalTask = execs[x].task
            /\ LatestContextOf(Ex, x).workingDir = execs[x].workingDir
            /\ LatestContextOf(Ex, x).conversationId = execs[x].conversationId

\* two executions are tracked and the one stored second started later
C19_Witness ==
    /\ Len(executions) = 2
    /\ execs[executions[1][2]].startedAt < execs[executions[2][2]].startedAt
    /\ getLatestTaskContext(Ex) = executions[2][2]
    /\ execs[executions[1][2]].status = "running"

\* C20: the execution a one-shot WhatsApp worker takes its prior context
\* from has finished and has a recorded completion summary, and the context
\* handed over says so; with no execution to take it from the worker gets
\* the default working directory.
C20_SeedIsCompletedTask ==
    [][WhatsAppStep /\ last'.out = "spawn" =>
         LET w == execs'[Len(execs')]
             x == getLatestTaskContext(Ex)
         IN IF x = 0
            THEN w.workingDir = Cwd
            ELSE /\ execs[x].status # "running"
                 /\ execs[x].completionSummary # Null
                 /\ w.prompt.context.completionSummary = execs[x].completionSummary
                 /\ w.prompt.context.completedAt # -1
    ]_vars

\* ---------------------------------------------------------------- tasks, completions and call-backs
\* Messages, workers reporting completion, call-backs and worker exits.
ContextIds == 1..(MaxConv + MaxCallbacks)

NextContext ==
    \/ \E c \in CallIds, f \in Senders : InboundCall(c, f)
    \/ \E id \in ContextIds : Gather(id)
    \/ \E id \in ContextIds : StatusWebhook(id, "completed")
    \/ \E f \in Senders : InboundWhatsApp(f, FALSE)
    \/ \E id \in ContextIds, s \in Summaries, ok \in BOOLEAN : Complete(id, s, ok)
    \/ \E x \in 1..Len(execs), code \in ExitCodes : WorkerClose(x, code)
    \/ Tick

SpecContext == Init /\ [][NextContext]_vars

\* C18: after recordCompletion(taskId, s) on a tracked execution,
\* getTaskContext(taskId) returns its task, s and its working directory;
\* after linkCallback(cb, taskId), getTaskContext(cb) returns the same context.
C18_ContextAfterCompletion ==
    [][\A id \in ContextIds, s \in Summaries, ok \in BOOLEAN :
          Complete(id, s, ok) =>
              LET x == getExecution(id)
                  got == getTaskContext(Ex', id)
              IN /\ got # 0
                 /\ ContextOf(Ex', got).originalTask = execs[x].task
                 /\ ContextOf(Ex', got).completionSummary = s
                 /\ ContextOf(Ex', got).workingDir = execs[x].workingDir
                 /\ nextId' # nextId => getTaskContext(Ex', nextId) = got
    ]_vars

\* ================================================================
\* Properties of the worker call-back surface
\* ================================================================

AskReturned(ws, w) == ws[w].returned \/ ws[w].resolved > 0

\* the `response` field an ask call returns
AskResponse(ws, w) == IF ws[w].returned THEN AskFallback ELSE ws[w].result

\* C22: an ask call always returns a value.  For an unknown or ended
\* conversation it returns the fallback at once and registers nothing.  When
\* speaking fails it unregisters its question, ends the conversation and
\* returns the fallback.  Otherwise it returns the answer handed to
\* resolveQuestion, or the 'no response' sentinel at its deadline.  In the step
\* in which it returns, no pending question is left registered for its
\* conversation id.
C22_AskNeverFails ==
    [][\A w \in 1..Len(waits') :
          (/\ waits'[w].kind = "ask"
           /\ AskReturned(waits', w)
           /\ w <= Len(waits) => ~AskReturned(waits, w))
          => LET c == waits'[w].conv
                 i == getConversation(c)
                 response == AskResponse(waits', w)
             IN /\ w > Len(waits) =>
                     /\ i = 0 \/ conversations[i].state = "ended"
                     /\ response = AskFallback
                     /\ pendingQuestions' = pendingQuestions
                /\ (w <= Len(waits) /\ waits'[w].returned) =>
                     /\ response = AskFallback
                     /\ i # 0 => conversations'[i].state = "ended"
                /\ (w <= Len(waits) /\ ~waits'[w].returned) =>
                     \/ response = AskTimedOut /\ ~MessageStep
                     \/ /\ MessageStep /\ response = MsgContent /\ MsgConv = c
                        /\ c \in DOMAIN pendingQuestions /\ pendingQuestions[c] = w
                /\ c \notin DOMAIN pendingQuestions'
    ]_vars

\* a step in which a message handler called resolveQuestion(MsgConv, MsgContent)
ResolveQuestionStep == MessageStep /\ last'.out # "wait"

\* C23: resolveQuestion(id, answer) returns true exactly when a question is
\* pending for id.  Then the pending ask receives the answer as its only
\* resolution, its timer is cancelled and the entry is removed, so that a second
\* resolveQuestion for id would return false.  When nothing is pending it
\* returns false and changes no pending question and no ask.  No ask is ever
\* resolved twice.
C23_ResolveQuestionOnce ==
    [][/\ ResolveQuestionStep =>
            IF QuestionWasPending
            THEN LET w == pendingQuestions[MsgConv]
                 IN /\ last'.out = "question"
                    /\ waits[w].kind = "ask" /\ waits[w].resolved = 0
                    /\ waits'[w].resolved = 1
                    /\ waits'[w].result = MsgContent
                    /\ ~waits'[w].timer
                    /\ pendingQuestions' = MapDelete(pendingQuestions, MsgConv)
                    /\ ~QuestionPending(Api(waits)', MsgConv)
                    /\ \A v \in 1..Len(waits) :
                          (v # w /\ waits[v].kind = "ask") => waits'[v] = waits[v]
            ELSE /\ last'.out # "question"
                 /\ pendingQuestions' = pendingQuestions
                 /\ \A v \in 1..Len(waits) : waits[v].kind = "ask" => waits'[v] = waits[v]
       /\ \A v \in 1..Len(waits') : waits'[v].kind = "ask" => waits'[v].resolved <= 1
    ]_vars

\* an ask was answered by one message, and the next message on the same
\* conversation found no question pending
C23_Witness ==
    /\ last.op = "gather" /\ last.out \in {"spawn", "hold"}
    /\ \E w \in 1..Len(waits) :
          /\ waits[w].kind = "ask" /\ waits[w].conv = last.id
          /\ waits[w].resolved = 1 /\ waits[w].result > 0
          /\ LastContent(Conv(last.id)) > waits[w].result

\* ================================================================
\* Message threads: findOrCreateConversation
\* ================================================================

\* the senders of text messages
Froms == 1..NumFrom

\* POST /webhook/:provider/sms with an inbound SMS
InboundSms(from) ==
    /\ nextMsg <= MaxMsgs
    /\ LET id == findOrCreateId(Reg, "sms", from)
       IN /\ id = nextId => nextId <= MaxThreads
          /\ nextId' = IF id = nextId THEN nextId + 1 ELSE nextId
          /\ SetReg(addMessage(findOrCreateConversation(Reg, "sms", nextMsg, from),
                               id, "user", nextMsg))
    /\ nextMsg' = nextMsg + 1
    /\ NoMessage
    /\ UNCHANGED <<chatConfigured, now>>
    /\ UnchangedEx /\ UnchangedChat /\ UnchangedApi

\* Text messages and calls from several senders arrive and conversations are
\* ended (end_call, a failed speak, a status webhook), in any order.
NextThreads ==
    \/ \E f \in Froms : InboundSms(f)
    \/ \E f \in Froms : InboundWhatsApp(f, FALSE)
    \/ \E c \in CallIds, f \in Froms : InboundCall(c, f)
    \/ \E id \in 1..MaxThreads : UpdateState(id, "ended")

SpecThreads == Init /\ [][NextThreads]_vars

\* the step handled a text message from sender f on channel ch
ThreadEvent(ch, f) ==
    \/ ch = "sms" /\ InboundSms(f)
    \/ ch = "whatsapp" /\ InboundWhatsApp(f, FALSE)

\* conversations of channel ch with sender f that hold a message
Threads(ch, f) ==
    {i \in 1..Len(conversations) :
        /\ conversations[i].channel = ch /\ conversations[i].from = f
        /\ Len(conversations[i].messages) > 0}

\* C24: while the conversation that received the previous message of a
\* sender on an SMS or WhatsApp channel is not ended, the next message of the
\* same sender on the same channel creates no conversation and is appended to
\* that conversation, after the messages it already holds.
C24_OneThreadPerSender ==
    [][\A ch \in {"sms", "whatsapp"}, f \in Froms :
          ThreadEvent(ch, f) =>
              \A i \in Threads(ch, f) :
                  (/\ \A j \in Threads(ch, f) :
                         LastContent(conversations[j]) <= LastContent(conversations[i])
                   /\ conversations[i].state # "ended")
                  => /\ Len(conversations') = Len(conversations)
                     /\ conversations'[i].messages =
                           Append(conversations[i].messages,
                                  [role |-> "user", content |-> nextMsg])
                     /\ \A k \in 1..Len(conversations) :
                           k # i => conversations'[k] = conversations[k]
    ]_vars

\* two SMS of one sender are in one conversation, in arrival order, and the
\* message that arrived between them is in another conversation
C24_Witness ==
    \E i \in 1..Len(conversations) :
        /\ conversations[i].channel = "sms"
        /\ Len(conversations[i].messages) = 2
        /\ conversations[i].messages[1].content = 1
        /\ conversations[i].messages[2].content = 3
        /\ Len(conversations) = 2

\* C25: a text message is filed under an existing conversation only if that
\* conversation has the message's channel and sender and is not ended; when
\* there is none, a new inbound conversation with a fresh id is created for
\* it.  So senders never share a conversation, a message never lands on a
\* conversation of another channel, and a sender whose conversation has ended
\* gets a new one.
C25_ThreadMatchesChannelAndSender ==
    [][\A ch \in {"sms", "whatsapp"}, f \in Froms :
          ThreadEvent(ch, f) =>
              LET matches == {i \in 1..Len(conversations) :
                                 /\ conversations[i].channel = ch
                                 /\ conversations[i].state # "ended"
                                 /\ conversations[i].from = f}
                  got == {k \in 1..Len(conversations') :
                             LastContent(conversations'[k]) = nextMsg}
              IN /\ Cardinality(got) = 1
                 /\ \A k \in got :
                       /\ conversations'[k].channel = ch
                       /\ conversations'[k].from = f
                       /\ IF matches # {}
                          THEN /\ k \in matches
                               /\ Len(conversations') = Len(conversations)
                          ELSE /\ k = Len(conversations) + 1
                               /\ Len(conversations') = k
                               /\ conversations'[k].id = nextId
                               /\ ConvIndex(conversations, nextId) = 0
                               /\ conversations'[k].direction = "inbound"
                               /\ Len(conversations'[k].messages) = 1
    ]_vars

\* a sender's conversation was ended and their next message opened a new one,
\* while another sender has a conversation of their own on the same channel
C25_Witness ==
    \E i, j, k \in 1..Len(conversations) :
        /\ i < j
        /\ conversations[i].channel = conversations[j].channel
        /\ conversations[i].from = conversations[j].from
        /\ conversations[i].state = "ended"
        /\ Len(conversations[i].messages) > 0 /\ Len(conversations[j].messages) > 0
        /\ conversations[k].channel = conversations[i].channel
        /\ conversations[k].from # conversations[i].from
        /\ Len(conversations[k].messages) > 0

\* ================================================================
\* Inbound waits: waitForInbound, addMessage
\* ================================================================

\* the channel filters of waitForInbound; "any" is an omitted filter
WaitChannels == {"any", "voice", "sms"}

\* Conversations of three channels and both directions receive messages and
\* change state while callers wait for inbound conversations.
NextInbound ==
    \/ \E ch \in RegChannels, d \in ConversationDirection : CreateConversation(ch, d, 1)
    \/ \E f \in Senders : InboundSms(f)
    \/ \E id \in 1..MaxThreads, role \in Role : AddMessage(id, role)
    \/ \E id \in 1..MaxThreads, st \in {"active", "ended"} : UpdateState(id, st)
    \/ \E ch \in WaitChannels : WaitForInbound(ch)
    \/ \E w \in 1..Len(waits) : InboundTimeout(w)

SpecInbound == InitReg /\ [][NextInbound]_vars

InboundWaits == {w \in 1..Len(waits) : waits[w].kind = "inbound"}
Pool(q) == {q[k] : k \in 1..Len(q)}

\* the inbound-waits that received a resolution in this step
ResolvedNow == {w \in InboundWaits : waits'[w].resolved > waits[w].resolved}

\* the step appended a message; the conversation that received it, 0 when the
\* id was unknown
Received ==
    IF \E k \in 1..Len(conversations') : LastContent(conversations'[k]) = nextMsg
    THEN CHOOSE k \in 1..Len(conversations') : LastContent(conversations'[k]) = nextMsg
    ELSE 0
MessageAdded == nextMsg' = nextMsg + 1 /\ Received # 0

Compatible(w, c) == waits[w].channel = "any" \/ waits[w].channel = c.channel

\* C26: a user message on an inbound conversation leaves it in state
\* pending_response and resolves at most one pending inbound-wait; that wait
\* has no filter or the conversation's channel as filter, leaves the pool and
\* has its timer cancelled; waits filtered on another channel are not resolved
\* and stay in the pool.  An assistant message, and any message on an
\* outbound conversation, resolves no inbound-wait.
C26_UserMessageNotifiesOneWaiter ==
    [][MessageAdded =>
          LET c == conversations'[Received]
          IN IF LastRole(c) = "user" /\ c.direction = "inbound"
             THEN /\ c.state = "pending_response"
                  /\ Cardinality(ResolvedNow) <= 1
                  /\ \A w \in ResolvedNow :
                        /\ Compatible(w, c)
                        /\ w \in Pool(inboundWaiters) /\ w \notin Pool(inboundWaiters')
                        /\ ~waits'[w].timer
                        /\ waits'[w].resolved = 1 /\ waits'[w].result = c.id
                  /\ \A w \in Pool(inboundWaiters) :
                        ~Compatible(w, c) =>
                            w \in Pool(inboundWaiters') /\ waits'[w] = waits[w]
                  /\ Pool(inboundWaiters') = Pool(inboundWaiters) \ ResolvedNow
             ELSE /\ ResolvedNow = {}
                  /\ inboundWaiters' = inboundWaiters
    ]_vars

\* a wait filtered on voice stayed in the pool while an SMS resolved the wait
\* registered after it
C26_Witness ==
    /\ Len(waits) = 2
    /\ waits[1].kind = "inbound" /\ waits[1].channel = "voice"
    /\ waits[1].resolved = 0 /\ inboundWaiters = <<1>>
    /\ waits[2].kind = "inbound" /\ waits[2].suspended /\ waits[2].resolved = 1
    /\ waits[2].result # Null
    /\ Conv(waits[2].result).channel = "sms"

\* the pending inbound conversations a waitForInbound call with this filter
\* may return
PendingFor(channel) ==
    {i \in 1..Len(conversations) :
        /\ conversations[i].direction = "inbound"
        /\ conversations[i].state = "pending_response"
        /\ Len(conversations[i].messages) > 0
        /\ (channel = "any" \/ conversations[i].channel = channel)}

DupCallIds == {100 + k : k \in 1..NumDupCalls}

\* Call-start events, repeated at any time, among the transcripts, status
\* events and worker exits of the calls.
NextCalls ==
    \/ \E c \in DupCallIds, f \in Senders : InboundCallUpTo(c, f, MaxThreads)
    \/ \E id \in 1..MaxThreads : Gather(id)
    \/ \E id \in 1..MaxThreads : StatusWebhook(id, "completed")
    \/ \E x \in 1..Len(execs), code \in ExitCodes : WorkerClose(x, code)

SpecCalls == Init /\ [][NextCalls]_vars

\* C28: after every call-start event with gateway id c exactly one
\* conversation has c as its provider id, the answer names that
\* conversation's id, and an event for an id that already has a conversation
\* leaves the registry as it was.
C28_DuplicateCallStart ==
    [][\A c \in DupCallIds, f \in Senders :
          InboundCallUpTo(c, f, MaxThreads) =>
              LET recs == {i \in 1..Len(conversations') :
                              conversations'[i].providerConversationId = c}
              IN /\ Cardinality(recs) = 1
                 /\ \A i \in recs : last'.op = "inbound" /\ last'.id = conversations'[i].id
                 /\ (\E i \in 1..Len(conversations) :
                        conversations[i].providerConversationId = c)
                    => conversations' = conversations
    ]_vars

\* the start event of the first call was delivered again after the call had
\* produced a transcript and a second call had started
C28_Witness ==
    /\ last = Obs("inbound", 1, "answer")
    /\ Len(conversations) = 2
    /\ Len(conversations[1].messages) > 0
    /\ conversations[1].providerConversationId # conversations[2].providerConversationId

\* ================================================================
\* The registry with ids it does not know
\* ================================================================

\* conversation ids handed to the registry: those it issued and one it never issued
AnyIds == 1..(MaxConv + 1)

\* The registry's operations called with known and unknown ids while waits of
\* both kinds are pending; old ended conversations are removed.
NextUnknown ==
    \/ \E d \in ConversationDirection : CreateConversation("voice", d, 1)
    \/ \E id \in AnyIds, role \in Role : AddMessage(id, role)
    \/ \E id \in AnyIds, s \in {"active", "ended"} : UpdateState(id, s)
    \/ \E id \in AnyIds : WaitForResponse(id)
    \/ WaitForInbound("any")
    \/ \E w \in 1..Len(waits) : InboundTimeout(w)
    \/ CleanupOld(0)
    \/ Tick

SpecUnknown == InitReg /\ [][NextUnknown]_vars

\* C29: addMessage and updateState with an id that is not in the registry
\* change no conversation, no pool of waiters and no wait.  updateState with a
\* known id assigns the state, sets the end time to the current time when the
\* new state is ended and leaves it as it was otherwise, and changes nothing
\* else.
C29_UnknownIdIsIgnored ==
    [][/\ \A id \in AnyIds, role \in Role :
            (AddMessage(id, role) /\ ~Known(id)) =>
                UNCHANGED <<conversations, inboundWaiters, responseWaiters, waits>>
       /\ \A id \in AnyIds, s \in {"active", "ended"} :
            UpdateState(id, s) =>
                /\ UNCHANGED <<inboundWaiters, responseWaiters, waits>>
                /\ IF ~Known(id)
                   THEN conversations' = conversations
                   ELSE LET i == ConvIndex(conversations, id)
                        IN /\ Len(conversations') = Len(conversations)
                           /\ conversations'[i] =
                                 [conversations[i] EXCEPT
                                     !.state = s,
                                     !.endedAt = IF s = "ended" THEN now ELSE @]
                           /\ \A k \in 1..Len(conversations) :
                                 k # i => conversations'[k] = conversations[k]
    ]_vars

\* nothing was ever created, every message went to an unknown id, and an
\* inbound-wait is still pending
C29_Witness ==
    /\ nextId = 1 /\ conversations = <<>>
    /\ nextMsg = MaxMsgs + 1
    /\ Len(inboundWaiters) > 0
    /\ \A w \in 1..Len(waits) : waits[w].kind = "inbound" => waits[w].resolved = 0

\* ================================================================
\* Properties of the chat history
\* ================================================================

\* a step in which handleMessage or recordAssistantMessage appended an entry
AppendStep == nextMsg' = nextMsg + 1 /\ ~ResetStep

\* C30: after every handleMessage and recordAssistantMessage the history
\* holds at most maxHistory entries: the entry just appended, preceded by the
\* newest entries it held before, in their order.  The history therefore
\* always is the tail of what was appended since the last reset, and only the
\* oldest entries are evicted.
C30_HistoryIsNewestTail ==
    [][AppendStep =>
          LET n == Len(history')
              kept == n - 1
          IN /\ n <= maxHistory
             /\ n = IF Len(history) + 1 <= maxHistory THEN Len(history) + 1 ELSE maxHistory
             /\ history'[n].content = nextMsg
             /\ \A i \in 1..kept : history'[i] = history[Len(history) - kept + i]
    ]_vars

\* the first of three entries was evicted; a user entry and the assistant
\* entry after it remain
C30_Witness ==
    /\ sessionId = 1
    /\ Len(history) = maxHistory
    /\ history[1].content = nextMsg - maxHistory /\ history[1].content > 1
    /\ history[1].role = "user"
    /\ history[maxHistory].content = nextMsg - 1
    /\ history[maxHistory].role = "assistant"

\* ================================================================
\* Properties of the voice context
\* ================================================================

\* the strings setVoiceContext is called with
NumVoiceTexts == 2
VoiceTexts == 1..NumVoiceTexts

\* The chat queue with several voice-call summaries handed to it.
NextVoice ==
    \/ HandleMessage
    \/ RecordAssistantMessage
    \/ ResetForVoiceCall
    \/ \E t \in VoiceTexts : SetVoiceContext(t)
    \/ \E x \in 1..Len(execs), code \in ExitCodes : WorkerClose(x, code)
    \/ \E x \in 1..Len(execs) : LaunchError(x)

SpecVoice == InitChat /\ [][NextVoice]_vars

\* the step spawned a queue worker (process() built a prompt)
ProcessStep == Len(execs') = Len(execs) + 1 /\ execs'[Len(execs')].onClose = "chat"

\* a step in which setVoiceContext was called; last'.id is its argument
SetVoiceStep == last'.op = "setVoiceContext"

\* C31: setVoiceContext(t) stores t, whatever was stored before; the stored
\* context changes in no step other than setVoiceContext and resetForVoiceCall
\* (not in handleMessage, recordAssistantMessage, a worker spawn or a worker
\* exit), and resetForVoiceCall clears it; every prompt process() builds
\* carries the context stored at that moment, and no voice block when none is
\* stored.
C31_VoiceContext ==
    [][/\ SetVoiceStep => voiceContext' = last'.id
       /\ ResetStep => voiceContext' = Null
       /\ voiceContext' # voiceContext => SetVoiceStep \/ ResetStep
       /\ HandleMessage \/ RecordAssistantMessage \/ ProcessStep \/ ChatWorkerExit =>
              voiceContext' = voiceContext
       /\ ProcessStep => execs'[Len(execs')].prompt.voice = voiceContext
    ]_vars

\* a first context was replaced by a second one, which the next prompt
\* carried; the session was then reset and the prompt built after the reset
\* carries no voice block
C31_Witness ==
    /\ Len(execs) = 3
    /\ execs[1].prompt.voice = 1
    /\ execs[2].prompt.voice = 2
    /\ execs[2].prompt.session = 1
    /\ execs[3].prompt.voice = Null
    /\ execs[3].prompt.session = 2
    /\ voiceContext = Null

\* ================================================================
\* Properties of the prompt
\* ================================================================

\* the history entries other than the user entry of the given text
HistoryWithout(h, text) ==
    SelectSeq(h, LAMBDA m : ~(m.role = "user" /\ m.content = text))

\* C32: the history section of every prompt process() builds consists of the
\* history entries other than the entry of the message being processed, also
\* for a message taken from the pending queue after other entries were
\* appended: the message appears only as the latest message, and no other
\* entry is left out.
C32_PromptHistory ==
    [][ProcessStep =>
          LET p == execs'[Len(execs')].prompt
          IN p.hist = HistoryWithout(history', p.latest)
    ]_vars

\* ================================================================
\* Properties of the worker's WhatsApp send
\* ================================================================

\* POST /api/whatsapp; sent: a messaging manager is configured and its
\* sendWhatsApp resolved.  The handler answers success with the message id, or
\* status 500; it touches no manager.  last.id is the message.
SendWhatsApp(sent) ==
    /\ nextMsg <= MaxMsgs
    /\ last' = Obs("send", nextMsg, IF sent THEN "success" ELSE "error")
    /\ nextMsg' = nextMsg + 1
    /\ UNCHANGED <<now, nextId>>
    /\ UnchangedReg /\ UnchangedEx /\ UnchangedChat /\ UnchangedApi

\* The chat queue with its workers sending replies through the call-back surface.
NextSend ==
    \/ HandleMessage
    \/ ResetForVoiceCall
    \/ \E sent \in BOOLEAN : SendWhatsApp(sent)
    \/ \E x \in 1..Len(execs), code \in ExitCodes : WorkerClose(x, code)

SpecSend == InitChat /\ [][NextSend]_vars

\* C33: with a chat queue configured, every message the send endpoint sent
\* successfully is appended to the chat history as an assistant-role entry.
C33_SendIsRecorded ==
    [][last'.op = "send" /\ last'.out = "success" /\ chatConfigured =>
          /\ history' # <<>>
          /\ history'[Len(history')] = [role |-> "assistant", content |-> last'.id]
    ]_vars

\* ================================================================
\* Properties of the follow-up after a call-back
\* ================================================================

\* Calls, transcripts, workers reporting completion, call-backs, worker
\* exits and the periodic reaping of executions.
NextFollowUp ==
    \/ \E c \in CallIds, f \in Senders : InboundCall(c, f)
    \/ \E id \in ContextIds : Gather(id)
    \/ \E id \in ContextIds, s \in Summaries, ok \in BOOLEAN : Complete(id, s, ok)
    \/ \E x \in 1..Len(execs), code \in ExitCodes : WorkerClose(x, code)
    \/ Cleanup(0, 0)
    \/ Tick

SpecFollowUp == InitReg /\ [][NextFollowUp]_vars

\* the execution made for conversation id o is still the one tracked under o:
\* it was neither reaped nor replaced
StillTracked(o) ==
    /\ getExecution(o) # 0
    /\ \A y \in 1..Len(execs) : execs[y].conversationId = o => y = getExecution(o)

\* C34: when 'complete' for a tracked conversation o fell back to a call-back
\* under the new id n and o's execution has not been reaped, the first
\* transcript gathered on n spawns a worker for n whose prompt carries o's
\* task and o's recorded completion summary, in o's working directory.
C34_FollowUpIsSeeded ==
    [][\A n \in ContextIds :
          /\ Gather(n)
          /\ n \in DOMAIN callbackLinks
          /\ getExecution(n) = 0
          /\ StillTracked(callbackLinks[n])
          => LET x == getExecution(callbackLinks[n])
                 w == execs'[Len(execs')]
             IN /\ Len(execs') = Len(execs) + 1
                /\ w.conversationId = n
                /\ w.status = "running"
                /\ w.task = nextMsg
                /\ getExecution(n)' = Len(execs')
                /\ execs[x].completionSummary # Null
                /\ getTaskContext(Ex, n) # 0
                /\ w.prompt.context.originalTask = execs[x].task
                /\ w.prompt.context.completionSummary = execs[x].completionSummary
                /\ w.prompt.context.workingDir = execs[x].workingDir
                /\ w.workingDir = execs[x].workingDir
    ]_vars

\* the worker of a call-back was itself called back: the follow-up under the
\* second call-back id was seeded from the first call-back's task, not from
\* the original one
C34_Witness ==
    /\ Len(execs) = 3
    /\ execs[1].conversationId = 1 /\ execs[2].conversationId = 2
    /\ execs[3].conversationId = 3
    /\ callbackLinks[2] = 1 /\ callbackLinks[3] = 2
    /\ execs[3].prompt.context.originalTask = execs[2].task
    /\ execs[3].prompt.context.originalTask # execs[1].task
    /\ execs[3].status = "running"

\* ================================================================
\* Properties of the pending queue and the processing flag
\* ================================================================

\* C35: in every state of the chat session, for any interleaving of
\* handleMessage, worker exits, failed launches and resetForVoiceCall, a
\* non-empty pending queue implies that the processing flag is set.
C35_PendingImpliesProcessing == pendingMessages # <<>> => isProcessing

\* a worker of the previous session exits while a message of the new session
\* waits behind the new session's worker
C35_Witness ==
    /\ sessionId = 2
    /\ Len(pendingMessages) = 1
    /\ isProcessing
    /\ \E x, y \in 1..Len(execs) :
           /\ execs[x].alive /\ execs[x].prompt.session = 1
           /\ execs[y].alive /\ execs[y].prompt.session = 2

\* ================================================================
\* The tool handlers for inbound messages
\* ================================================================

\* messagingChannels
MessagingChannels == {"sms", "whatsapp"}

\* the channel argument of receive_inbound_message; "any" leaves the filter undefined
ToolChannels == {"any", "sms", "whatsapp"}

ChannelOf(r, id) == r.conversations[ConvIndex(r.conversations, id)].channel

\* receive_inbound_message: the pending conversation its first check finds
receivePending(r, channelArg) ==
    LET pendingConversation == getPendingInbound(r, channelArg)
    IN IF pendingConversation = Null /\ channelArg = "any"
       THEN IF getPendingInbound(r, "sms") # Null
            THEN getPendingInbound(r, "sms")
            ELSE getPendingInbound(r, "whatsapp")
       ELSE pendingConversation

\* receive_inbound_message up to its return or its await of waitForInbound.
\* A call that returns at its first check is recorded like a promise that is
\* settled already, with the conversation as it was then.
receiveInboundMessage(r, channelArg) ==
    LET pendingConversation == receivePending(r, channelArg)
    IN IF pendingConversation # Null /\ ChannelOf(r, pendingConversation) \in MessagingChannels
       THEN [r EXCEPT !.waits = Append(@,
                NewWait("inbound", Null, channelArg, FALSE, pendingConversation,
                        Snapshot(r.conversations[ConvIndex(r.conversations, pendingConversation)])))]
       ELSE waitForInbound(r, channelArg)

\* what a receive_inbound_message call whose promise is settled answers: the
\* conversation of the message, Null for 'No incoming message received'
ReceiveAnswer(r, w) ==
    IF r.waits[w].result # Null /\ ChannelOf(r, r.waits[w].result) \in MessagingChannels
    THEN r.waits[w].result
    ELSE Null

ReceiveInboundMessage(channelArg) ==
    /\ Len(waits) < MaxWaits
    /\ SetReg(receiveInboundMessage(Reg, channelArg))
    /\ NoMessage
    /\ UNCHANGED <<now, nextId, nextMsg>>
    /\ UnchangedEx /\ UnchangedChat /\ UnchangedApi

\* reply_to_conversation once the gateway accepted the message; an unknown or
\* ended conversation and a failed send make the tool throw
ReplyToConversation(conversationId, waitForReply) ==
    /\ nextMsg <= MaxMsgs
    /\ getConversation(conversationId) # 0
    /\ conversations[getConversation(conversationId)].state # "ended"
    /\ LET r == addMessage(Reg, conversationId, "assistant", nextMsg)
       IN IF waitForReply
          THEN Len(waits) < MaxWaits /\ SetReg(waitForResponse(r, conversationId))
          ELSE SetReg(r)
    /\ nextMsg' = nextMsg + 1
    /\ NoMessage
    /\ UNCHANGED <<now, nextId>>
    /\ UnchangedEx /\ UnchangedChat /\ UnchangedApi

\* Text messages and calls arrive while an assistant polls for inbound
\* messages and replies to them.
NextTools ==
    \/ \E f \in Senders : InboundSms(f)
    \/ \E c \in CallIds, f \in Senders : InboundCallUpTo(c, f, MaxThreads)
    \/ \E id \in 1..MaxThreads : Gather(id)
    \/ \E ch \in ToolChannels : ReceiveInboundMessage(ch)
    \/ \E id \in 1..MaxThreads, waitForReply \in BOOLEAN : ReplyToConversation(id, waitForReply)
    \/ \E w \in 1..Len(waits) : InboundTimeout(w)
    \/ \E w \in 1..Len(waits) : ResponseTimeout(w)

SpecTools == InitReg /\ [][NextTools]_vars

\* receive calls that returned a conversation at their first check
ReturnedAtOnce(w) ==
    waits[w].kind = "inbound" /\ waits[w].regKnown /\ waits[w].result # Null

\* the messages of c numbered from+1 .. to are assistant replies, at least one
OnlyRepliesBetween(c, from, to) ==
    /\ from < to
    /\ \A k \in (from + 1)..to : c.messages[k].role = "assistant"

\* C36: once a receive call has returned a conversation for its latest user
\* message and an assistant reply has been appended to it, the conversation is
\* back in state active, and no later receive call returns it before a new
\* user message is appended.
C36_DeliveredOnce ==
    \A w \in 1..Len(waits) :
        ReturnedAtOnce(w) /\ Known(waits[w].result) =>
            LET c == Conv(waits[w].result)
                n == waits[w].regLen
            IN c.messages[n].role = "user" =>
                 /\ OnlyRepliesBetween(c, n, Len(c.messages)) => c.state \in {"active", "ended"}
                 /\ \A v \in (w + 1)..Len(waits) :
                        ReturnedAtOnce(v) /\ waits[v].result = waits[w].result
                            => ~OnlyRepliesBetween(c, n, waits[v].regLen)

\* the pending SMS and WhatsApp conversations
PendingMessaging(r) ==
    {i \in 1..Len(r.conversations) :
        /\ r.conversations[i].direction = "inbound"
        /\ r.conversations[i].state = "pending_response"
        /\ Len(r.conversations[i].messages) > 0
        /\ r.conversations[i].channel \in MessagingChannels}

\* C37: receive_inbound_message with channel 'any' returns a pending SMS or
\* WhatsApp conversation whenever one exists, whatever else the registry
\* holds; it never returns a voice conversation, and every call that is
\* settled without a conversation found no SMS or WhatsApp message pending
\* when it was made.
C37_ReceiveAnyFindsMessaging ==
    [][ReceiveInboundMessage("any") =>
          LET w == Len(waits')
              answer == ReceiveAnswer(Reg', w)
          IN /\ answer # Null => ChannelOf(Reg, answer) \in MessagingChannels
             /\ PendingMessaging(Reg) # {} =>
                   /\ waits'[w].resolved = 1
                   /\ answer # Null
                   /\ ConvIndex(conversations, answer) \in PendingMessaging(Reg)
    ]_vars

\* ================================================================
\* The tool handlers for outbound messages
\* ================================================================

\* send_sms / send_whatsapp once the gateway accepted the message (the
\* handler registers nothing before): the conversation is created as outbound
\* with metadata {to} only, the message appended, and with wait_for_reply the
\* call awaits waitForResponse
SendMessage(channel, waitForReply) ==
    /\ nextMsg <= MaxMsgs
    /\ nextId <= MaxThreads
    /\ LET r1 == createConversation(Reg, nextId, channel, "outbound", nextMsg, Null)
           r2 == addMessage(r1, nextId, "assistant", nextMsg)
       IN IF waitForReply
          THEN Len(waits) < MaxWaits /\ SetReg(waitForResponse(r2, nextId))
          ELSE SetReg(r2)
    /\ nextId' = nextId + 1
    /\ nextMsg' = nextMsg + 1
    /\ NoMessage
    /\ UNCHANGED now
    /\ UnchangedEx /\ UnchangedChat /\ UnchangedApi

\* An assistant sends text messages and waits for replies while the user's
\* messages arrive through the inbound webhooks.
NextOutbound ==
    \/ \E ch \in MessagingChannels, waitForReply \in BOOLEAN : SendMessage(ch, waitForReply)
    \/ \E f \in Senders : InboundSms(f)
    \/ \E f \in Senders : InboundWhatsApp(f, FALSE)
    \/ \E w \in 1..Len(waits) : ResponseTimeout(w)
    \/ \E x \in 1..Len(execs), code \in ExitCodes : WorkerClose(x, code)

SpecOutbound == Init /\ [][NextOutbound]_vars

\* the send calls on the channel that are waiting for a reply
SendsWaiting(ch) ==
    {w \in ResponseWaits :
        /\ waits[w].resolved = 0 /\ waits[w].timer
        /\ Known(waits[w].conv)
        /\ Conv(waits[w].conv).channel = ch
        /\ Conv(waits[w].conv).direction = "outbound"}

\* the message of this step went to the one send call waiting on the channel
ReplyReaches(ch) ==
    \A w \in SendsWaiting(ch) :
        SendsWaiting(ch) = {w} =>
            /\ waits'[w].resolved = 1
            /\ waits'[w].result = nextMsg
            /\ LastContent(Conv(waits[w].conv)') = nextMsg

\* C38: while a send_sms or send_whatsapp call waits for a reply, the user's
\* next message on that channel is appended to the conversation the send
\* created and resolves its response-wait with the message.
C38_ReplyReachesSend ==
    [][\A f \in Senders :
          /\ InboundSms(f) => ReplyReaches("sms")
          /\ InboundWhatsApp(f, FALSE) => ReplyReaches("whatsapp")
    ]_vars

\* ================================================================
\* Properties of registry waits and dispatch
\* ================================================================

\* WhatsApp messages arrive while an assistant is blocked in
\* receive_inbound_message or in reply_to_conversation with wait_for_reply.
NextConsume ==
    \/ \E f \in Senders : InboundWhatsApp(f, FALSE)
    \/ \E ch \in ToolChannels : ReceiveInboundMessage(ch)
    \/ \E id \in ConvIds, waitForReply \in BOOLEAN : ReplyToConversation(id, waitForReply)
    \/ \E w \in 1..Len(waits) : InboundTimeout(w)
    \/ \E w \in 1..Len(waits) : ResponseTimeout(w)
    \/ \E x \in 1..Len(execs), code \in ExitCodes : WorkerClose(x, code)

SpecConsume == Init /\ [][NextConsume]_vars

\* the step's message resolved a blocked inbound-wait or response-wait
RegistryWaitSatisfied ==
    \E w \in 1..Len(waits) :
        /\ waits[w].kind \in {"inbound", "response"}
        /\ waits[w].resolved = 0
        /\ waits'[w].resolved = 1
        /\ waits'[w].result # Null

\* C39: an inbound WhatsApp message whose append satisfies a blocked registry
\* wait is consumed by that wait only: it is not handed to the chat queue and
\* spawns no worker.
C39_WaitConsumesMessage ==
    [][WhatsAppStep /\ RegistryWaitSatisfied =>
          /\ history' = history
          /\ pendingMessages' = pendingMessages
          /\ execs' = execs
    ]_vars

\* ================================================================
\* The initiate_call tool handler
\* ================================================================

\* the status webhook with its log: last.out is "unknown" when updateState
\* warns that the conversation was not found
StatusWebhookLogged(conversationId, state) ==
    /\ StatusUpdate(conversationId, state)
    /\ last' = Obs("status", conversationId,
                   IF getConversation(conversationId) # 0 THEN "updated" ELSE "unknown")

\* the pending promise of phoneCallManager.initiateCall for a conversation id
GatewayCall(id) ==
    [NewWait("gateway", id, "voice", TRUE, Null, NoConv) EXCEPT !.timer = FALSE]

\* initiate_call up to its await of initiateCall: the conversation id is
\* drawn and the gateway is given the status and gather URLs of that id
InitiateCallStart ==
    /\ Cardinality({w \in 1..Len(waits) : waits[w].kind = "gateway"}) < MaxWaits
    /\ nextId <= MaxThreads
    /\ waits' = Append(waits, GatewayCall(nextId))
    /\ nextId' = nextId + 1
    /\ NoMessage
    /\ UNCHANGED <<conversations, inboundWaiters, responseWaiters, now, nextMsg>>
    /\ UnchangedEx /\ UnchangedChat /\ UnchangedApi

\* initiate_call after initiateCall resolved with the provider's call id: the
\* conversation is registered, the message appended, and the call awaits
\* waitForResponse
InitiateCallPlaced(w, providerCallId) ==
    /\ waits[w].kind = "gateway" /\ waits[w].resolved = 0
    /\ nextMsg <= MaxMsgs
    /\ LET id == waits[w].conv
           r0 == [Reg EXCEPT !.waits = Resolve(@, w, providerCallId)]
           r1 == createConversation(r0, id, "voice", "outbound", providerCallId, Null)
           r2 == addMessage(r1, id, "assistant", nextMsg)
       IN SetReg(waitForResponse(r2, id))
    /\ nextMsg' = nextMsg + 1
    /\ NoMessage
    /\ UNCHANGED <<now, nextId>>
    /\ UnchangedEx /\ UnchangedChat /\ UnchangedApi

\* initiateCall rejected: the tool throws and registers nothing
InitiateCallFailed(w) ==
    /\ waits[w].kind = "gateway" /\ waits[w].resolved = 0
    /\ waits' = Resolve(waits, w, Null)
    /\ NoMessage
    /\ UNCHANGED <<conversations, inboundWaiters, responseWaiters, now, nextId, nextMsg>>
    /\ UnchangedEx /\ UnchangedChat /\ UnchangedApi

\* An assistant places calls; the gateway reports their status and the
\* user's speech to the URLs it was given.
NextInitiate ==
    \/ InitiateCallStart
    \/ \E w \in 1..Len(waits), c \in CallIds : InitiateCallPlaced(w, c)
    \/ \E w \in 1..Len(waits) : InitiateCallFailed(w)
    \/ \E id \in 1..MaxThreads, s \in {"answered", "completed"} : StatusWebhookLogged(id, s)
    \/ \E id \in 1..MaxThreads : Gather(id)
    \/ \E w \in 1..Len(waits) : ResponseTimeout(w)
    \/ \E x \in 1..Len(execs), code \in ExitCodes : WorkerClose(x, code)

SpecInitiate == InitReg /\ [][NextInitiate]_vars

\* the gateway was given webhook URLs for the id by an initiate_call that did
\* not fail
HasWebhookUrls(id) ==
    \E w \in 1..Len(waits) :
        /\ waits[w].kind = "gateway" /\ waits[w].conv = id
        /\ ~(waits[w].resolved > 0 /\ waits[w].result = Null)

\* C40: the conversation of an initiate_call is registered before any webhook
\* event for its id is processed: no status update addressed to an id the
\* gateway was given is dropped as an unknown conversation.
C40_RegisteredBeforeWebhooks ==
    [][last'.op = "status" /\ HasWebhookUrls(last'.id) => last'.out = "updated"]_vars

====
